---- MODULE Spec2Model ----
(***************************************************************************)
(* Model of the PostgreSQL + Redis + completion-service API of             *)
(* src/index.js: the handlers handleSearch, handleRecommend, handleStats   *)
(* and handleQuery, their cache-aside use of Redis, candidate retrieval    *)
(* and the validation of the completion service's recommendations; and of  *)
(* the MongoDB-side components: the pagination blocks, connectToDatabase   *)
(* and cacheManager of src/lib/database.js and the related-books handler   *)
(* of src/api/books/related.js.                                            *)
(*                                                                         *)
(* Text is a sequence of one-character strings.  The traditional and       *)
(* simplified characters of the conversion table are written in ASCII:     *)
(* "shuoT" is the traditional and "shuoS" the simplified form of the same  *)
(* character, "xiao" a character that is the same in both scripts.         *)
(***************************************************************************)
EXTENDS Integers, Sequences, FiniteSets, TLC

VARIABLES
    reqs,       \* request slot -> the handler invocation running in it
    cache,      \* Redis: key -> entry (value, expiry) or NoEntry
    redis,      \* "absent" (redisClient null), "up", "failing" (commands reject)
    db,         \* "nopool" (dbPool null), "up", "down" (queries reject)
    views,      \* books.view_count of the books handleQuery can look up
    pending,    \* fire-and-forget UPDATEs issued and not yet executed
    now,        \* wall clock, seconds
    started,    \* number of requests begun so far
    paging,       \* a page request and the pagination blocks computed for it
    cachedClient, \* lib/database.js: module variable cachedClient (0 is null)
    cachedDb,     \* lib/database.js: module variable cachedDb (0 is null)
    clients,      \* MongoClient objects created so far
    calls,        \* concurrent connectToDatabase calls
    closing,      \* the closeConnection call
    memCache,     \* cacheManager.cache: the Map of entries
    memNow,       \* Date.now(), milliseconds
    memTrace,     \* history of the cacheManager operations
    related       \* the related-books handler's invocation

apiVars == <<reqs, cache, redis, db, views, pending, now, started>>
pageVars == <<paging>>
mongoVars == <<cachedClient, cachedDb, clients, calls, closing>>
memVars == <<memCache, memNow, memTrace>>
relatedVars == <<related>>
libVars == <<pageVars, mongoVars, memVars, relatedVars>>
vars == <<apiVars, libVars>>

-----------------------------------------------------------------------------
(* Bounds of the model *)

NBooks == 23        \* rows of the books table
MaxRecs == 2        \* longest recommendations array the completion service returns
MaxNow == 600       \* the clock stops here
TickSecs == 300     \* one step of the clock
MaxStarted == 2     \* requests begun in one behaviour

-----------------------------------------------------------------------------
(* JavaScript and SQL text primitives *)

\* absent and null values; an object-valued field holds a record, and Null is
\* the record that stands for JavaScript's null there
Undefined == "undefined"
Null == [null |-> TRUE]

Min(a, b) == IF a < b THEN a ELSE b
Max(a, b) == IF a > b THEN a ELSE b

\* a JavaScript number: an integer, or NaN
Num(n) == [nan |-> FALSE, v |-> n]
NaN == [nan |-> TRUE, v |-> 0]
MathMax(a, x) == IF x.nan THEN NaN ELSE Num(Max(a, x.v))
MathMin(a, x) == IF x.nan THEN NaN ELSE Num(Min(a, x.v))

\* a request parameter as it arrives: absent, a string of characters, or a
\* number.  parseInt of text that holds no number is NaN.
Absent == [t |-> "absent"]
Str(s) == [t |-> "str", s |-> s]
NumParam(n) == [t |-> "num", v |-> n]
ParseInt(p, default) ==
    IF p.t = "absent" THEN Num(default)
    ELSE IF p.t = "num" THEN Num(p.v)
    ELSE NaN

\* Array.prototype.slice(0, n)
Slice(s, n) == SubSeq(s, 1, Min(Len(s), n))

Range(s) == {s[i] : i \in 1..Len(s)}

\* ILIKE compares without case; the model's only cased letters are A and B
Lower(c) == IF c = "A" THEN "a" ELSE IF c = "B" THEN "b" ELSE c

\* String.prototype.trim
RECURSIVE TrimLeft(_)
TrimLeft(s) == IF s # <<>> /\ Head(s) = " " THEN TrimLeft(Tail(s)) ELSE s

RECURSIVE TrimRight(_)
TrimRight(s) ==
    IF s # <<>> /\ s[Len(s)] = " " THEN TrimRight(SubSeq(s, 1, Len(s) - 1)) ELSE s

Trim(s) == TrimRight(TrimLeft(s))

\* String.prototype.replace(/pat/g, rep) for a two-character pattern
RECURSIVE ReplaceAll(_, _, _)
ReplaceAll(s, pat, rep) ==
    IF Len(s) < Len(pat) THEN s
    ELSE IF SubSeq(s, 1, Len(pat)) = pat
         THEN rep \o ReplaceAll(SubSeq(s, Len(pat) + 1, Len(s)), pat, rep)
         ELSE <<Head(s)>> \o ReplaceAll(Tail(s), pat, rep)

\* String.prototype.replace with a string pattern: the first occurrence only
RECURSIVE ReplaceFirst(_, _, _)
ReplaceFirst(s, pat, rep) ==
    IF Len(s) < Len(pat) THEN s
    ELSE IF SubSeq(s, 1, Len(pat)) = pat
         THEN rep \o SubSeq(s, Len(pat) + 1, Len(s))
         ELSE <<Head(s)>> \o ReplaceFirst(Tail(s), pat, rep)

\* the chain without the g flag
SimplifyFirst(q) ==
    LET r1 == ReplaceFirst(q,  <<"xiao", "shuoT">>, <<"xiao", "shuoS">>)
        r2 == ReplaceFirst(r1, <<"erT", "tong">>,   <<"erS", "tong">>)
        r3 == ReplaceFirst(r2, <<"shuT", "xueT">>,  <<"shuS", "xueS">>)
        r4 == ReplaceFirst(r3, <<"liT", "shi">>,    <<"liS", "shi">>)
        r5 == ReplaceFirst(r4, <<"bianT", "cheng">>, <<"bianS", "cheng">>)
        r6 == ReplaceFirst(r5, <<"dianT", "naoT">>, <<"dianS", "naoS">>)
        r7 == ReplaceFirst(r6, <<"yuT", "yan">>,    <<"yuS", "yan">>)
    IN  r7

\* the chain of .replace calls: traditional terms to simplified ones
Simplify(q) ==
    LET r1 == ReplaceAll(q,  <<"xiao", "shuoT">>, <<"xiao", "shuoS">>)
        r2 == ReplaceAll(r1, <<"erT", "tong">>,   <<"erS", "tong">>)
        r3 == ReplaceAll(r2, <<"shuT", "xueT">>,  <<"shuS", "xueS">>)
        r4 == ReplaceAll(r3, <<"liT", "shi">>,    <<"liS", "shi">>)
        r5 == ReplaceAll(r4, <<"bianT", "cheng">>, <<"bianS", "cheng">>)
        r6 == ReplaceAll(r5, <<"dianT", "naoT">>, <<"dianS", "naoS">>)
        r7 == ReplaceAll(r6, <<"yuT", "yan">>,    <<"yuS", "yan">>)
    IN  r7

\* SQL: text ILIKE pattern.  % is any run of characters, _ any one character,
\* a backslash makes the next pattern character literal.
RECURSIVE ILike(_, _)
ILike(s, p) ==
    IF p = <<>> THEN s = <<>>
    ELSE IF Head(p) = "%"
         THEN \E k \in 0..Len(s) : ILike(SubSeq(s, k + 1, Len(s)), Tail(p))
    ELSE IF Head(p) = "_"
         THEN s # <<>> /\ ILike(Tail(s), Tail(p))
    ELSE IF Head(p) = "\\" /\ Len(p) >= 2
         THEN s # <<>> /\ Lower(Head(s)) = Lower(p[2])
              /\ ILike(Tail(s), SubSeq(p, 3, Len(p)))
    ELSE s # <<>> /\ Lower(Head(s)) = Lower(Head(p)) /\ ILike(Tail(s), Tail(p))

\* the parameter `%${query}%`
Wrap(q) == <<"%">> \o q \o <<"%">>

\* the 'simple' text search configuration: lower-cased words
RECURSIVE Words(_, _)
Words(s, cur) ==
    IF s = <<>> THEN (IF cur = <<>> THEN {} ELSE {cur})
    ELSE IF Head(s) = " "
         THEN (IF cur = <<>> THEN {} ELSE {cur}) \cup Words(Tail(s), <<>>)
         ELSE Words(Tail(s), Append(cur, Lower(Head(s))))

\* to_tsvector('simple', text) @@ plainto_tsquery('simple', q): every word of q
\* is a word of text; a query without words matches nothing
TsMatch(text, q) ==
    /\ Words(q, <<>>) # {}
    /\ Words(q, <<>>) \subseteq Words(text, <<>>)

-----------------------------------------------------------------------------
(* The books table *)

BookIds == 1..NBooks

\* the rows handleQuery is asked for (by id 1, or by a title that rows 1 and 5
\* contain); their view counters are the ones that move
Viewed == {1, 5}

Title(i)     == IF i \in {1, 5} THEN <<"A", "b", "o">>
                ELSE IF i % 4 = 1 THEN <<"A", "b">> ELSE <<"t">>
Author(i)    == IF i % 4 = 2 THEN <<"a", "b", "c">> ELSE <<"u">>
Subject(i)   == IF i % 4 = 3 THEN <<"x", "a", "b">>
                ELSE IF i \in {4, 8} THEN <<"xiao", "shuoS">> ELSE <<"s">>
\* row 16 holds the simplified term in its publisher and nowhere else
Publisher(i) == IF i = 16 THEN <<"xiao", "shuoS">>
                ELSE IF i % 8 = 4 THEN <<"a", "b">> ELSE <<"p">>
SearchText(i) == IF i % 8 = 0 THEN <<"k", " ", "A", "b">> ELSE <<"k">>
Language(i)  == IF i % 2 = 0 THEN <<"z", "h">> ELSE <<"e", "n">>
Callno(i)    == <<"c", ToString(i)>>
Status(i)    == <<"available">>
\* rows 1 and 5 have the same title and popularity, and so tie on the sort
\* key whenever their view counters are equal
Popularity(i) == IF i = 5 THEN 1 ELSE i % 7

\* the columns both SELECT lists name, as the row stands at a moment
IdVal(i) == [t |-> "num", v |-> i]

Row(i, vw) ==
    [id |-> IdVal(i), title |-> Title(i), author |-> Author(i),
     publisher |-> Publisher(i), subject |-> Subject(i),
     language |-> Language(i), popularity |-> Popularity(i),
     view_count |-> IF i \in Viewed THEN vw[i] ELSE 0]

\* SELECT *: every column
FullRow(i, vw) ==
    [id |-> IdVal(i), title |-> Title(i), author |-> Author(i),
     publisher |-> Publisher(i), subject |-> Subject(i),
     language |-> Language(i), popularity |-> Popularity(i),
     view_count |-> IF i \in Viewed THEN vw[i] ELSE 0,
     callno |-> Callno(i), status |-> Status(i), search_text |-> SearchText(i)]

-----------------------------------------------------------------------------
(* ORDER BY ... LIMIT: every order the sort key allows *)

RECURSIVE KeyLE(_, _)
KeyLE(a, b) ==
    IF a = <<>> THEN TRUE
    ELSE IF Head(a) # Head(b) THEN Head(a) < Head(b)
    ELSE KeyLE(Tail(a), Tail(b))

\* S is a set of <<key, row>>; the result is the set of sequences of the first
\* n of its rows in ascending key order, rows of equal key in any order
RECURSIVE SortedSeqs(_, _)
SortedSeqs(S, n) ==
    IF S = {} \/ n <= 0 THEN {<<>>}
    ELSE UNION {{<<m[2]>> \o t : t \in SortedSeqs(S \ {m}, n - 1)} :
                m \in {x \in S : \A y \in S : KeyLE(x[1], y[1])}}

-----------------------------------------------------------------------------
(* searchCandidateBooks: WHERE, ORDER BY and LIMIT of its query *)

CandidateWhere(i, q) ==
    LET p1 == Wrap(q)
        p3 == Wrap(Simplify(q))
    IN  \/ ILike(Title(i), p1)
        \/ ILike(Author(i), p1)
        \/ ILike(Subject(i), p1)
        \/ ILike(Publisher(i), p1)
        \/ ILike(Title(i), p3)
        \/ ILike(Author(i), p3)
        \/ ILike(Subject(i), p3)
        \/ ILike(Publisher(i), p3)
        \/ TsMatch(SearchText(i), q)

CandidateTier(i, q) ==
    LET p1 == Wrap(q)
        p3 == Wrap(Simplify(q))
    IN  IF ILike(Title(i), p1) THEN 1
        ELSE IF ILike(Title(i), p3) THEN 1
        ELSE IF ILike(Author(i), p1) THEN 2
        ELSE IF ILike(Author(i), p3) THEN 2
        ELSE IF ILike(Subject(i), p1) THEN 3
        ELSE IF ILike(Subject(i), p3) THEN 3
        ELSE 4

\* the row lists the query can return for LIMIT n, the table standing as vw says
CandidateRows(q, n, vw) ==
    LET keyed == {<<<<CandidateTier(i, q), 0 - Popularity(i), 0 - Row(i, vw).view_count>>,
                    Row(i, vw)>> : i \in {j \in BookIds : CandidateWhere(j, q)}}
    IN  SortedSeqs(keyed, n)

\* what searchCandidateBooks returns: [] without a pool, when the query is
\* rejected (the server down, or LIMIT NaN), else the rows
SearchCandidateBooks(q, limit, dbState, vw) ==
    IF dbState # "up" \/ limit.nan THEN {<<>>}
    ELSE CandidateRows(q, limit.v, vw)

-----------------------------------------------------------------------------
(* handleSearch: the row query and the count query *)

\* a request parameter in a condition: absent and the empty string are falsy
Falsy(p) == p.t = "absent" \/ (p.t = "str" /\ p.s = <<>>)

\* language || ''
OrEmpty(p) == IF Falsy(p) THEN <<>> ELSE p.s

\* simplifiedTerms: handleSearch's own chain of .replace calls
SimplifiedTerms(searchQuery) ==
    LET r1 == ReplaceAll(searchQuery, <<"xiao", "shuoT">>, <<"xiao", "shuoS">>)
        r2 == ReplaceAll(r1, <<"erT", "tong">>,   <<"erS", "tong">>)
        r3 == ReplaceAll(r2, <<"shuT", "xueT">>,  <<"shuS", "xueS">>)
        r4 == ReplaceAll(r3, <<"liT", "shi">>,    <<"liS", "shi">>)
        r5 == ReplaceAll(r4, <<"bianT", "cheng">>, <<"bianS", "cheng">>)
        r6 == ReplaceAll(r5, <<"dianT", "naoT">>, <<"dianS", "naoS">>)
        r7 == ReplaceAll(r6, <<"yuT", "yan">>,    <<"yuS", "yan">>)
    IN  r7

\* the WHERE of the row statement, with the filters that are appended when
\* the parameter is given
SearchWhere(i, q, language, subject) ==
    LET p1 == Wrap(q)
        p3 == Wrap(SimplifiedTerms(q))
    IN  /\ \/ ILike(Title(i), p1)
           \/ ILike(Author(i), p1)
           \/ ILike(Subject(i), p1)
           \/ ILike(Publisher(i), p1)
           \/ ILike(Title(i), p3)
           \/ ILike(Author(i), p3)
           \/ ILike(Subject(i), p3)
           \/ TsMatch(SearchText(i), q)
        /\ (~Falsy(language) => Language(i) = language.s)
        /\ (~Falsy(subject) => Subject(i) = subject.s)

\* ORDER BY popularity DESC, view_count DESC LIMIT limit OFFSET offset
SearchRowsQuery(q, language, subject, limit, offset, vw) ==
    LET keyed == {<<<<0 - Popularity(i), 0 - Row(i, vw).view_count>>, Row(i, vw)>> :
                    i \in {j \in BookIds : SearchWhere(j, q, language, subject)}}
    IN  {SubSeq(s, offset + 1, Len(s)) : s \in SortedSeqs(keyed, offset + limit)}

\* the count statement without the subject filter
SearchCountWhereNoSubject(i, q, language, subject) ==
    LET p1 == Wrap(q)
        p3 == Wrap(SimplifiedTerms(q))
    IN  /\ \/ ILike(Title(i), p1)
           \/ ILike(Author(i), p1)
           \/ ILike(Subject(i), p1)
           \/ ILike(Publisher(i), p1)
           \/ ILike(Title(i), p3)
           \/ ILike(Author(i), p3)
           \/ ILike(Subject(i), p3)
           \/ TsMatch(SearchText(i), q)
        /\ (~Falsy(language) => Language(i) = language.s)

\* the WHERE of the count statement, written out a second time in the source
SearchCountWhere(i, q, language, subject) ==
    LET p1 == Wrap(q)
        p3 == Wrap(SimplifiedTerms(q))
    IN  /\ \/ ILike(Title(i), p1)
           \/ ILike(Author(i), p1)
           \/ ILike(Subject(i), p1)
           \/ ILike(Publisher(i), p1)
           \/ ILike(Title(i), p3)
           \/ ILike(Author(i), p3)
           \/ ILike(Subject(i), p3)
           \/ TsMatch(SearchText(i), q)
        /\ (~Falsy(language) => Language(i) = language.s)
        /\ (~Falsy(subject) => Subject(i) = subject.s)

\* SELECT COUNT(*)
SearchCountQuery(q, language, subject) ==
    Cardinality({j \in BookIds : SearchCountWhere(j, q, language, subject)})

\* Math.ceil(a / b) for a >= 0, b >= 1
CeilDiv(a, b) == (a + b - 1) \div b

SearchResult(req, total) ==
    [success |-> TRUE,
     data |-> [books |-> req.rows,
               pagination |-> [page |-> req.pageNum.v,
                               limit |-> req.limitNum.v,
                               total |-> total,
                               totalPages |-> CeilDiv(total, req.limitNum.v),
                               hasNext |-> req.pageNum.v * req.limitNum.v < total,
                               hasPrev |-> req.pageNum.v > 1],
               query |-> req.searchQuery,
               filters |-> [language |-> req.language, subject |-> req.subject]]]

-----------------------------------------------------------------------------
(* getDatabaseStats: the five aggregate queries *)

Languages == {Language(i) : i \in BookIds}
Subjects == {Subject(i) : i \in BookIds} \ {<<>>}

\* GROUP BY ... ORDER BY count DESC LIMIT n
LanguageDistribution ==
    SortedSeqs({<<<<0 - Cardinality({i \in BookIds : Language(i) = l})>>,
                  [language |-> l,
                   count |-> Cardinality({i \in BookIds : Language(i) = l})]>> :
                l \in Languages}, 5)

PopularSubjects ==
    SortedSeqs({<<<<0 - Cardinality({i \in BookIds : Subject(i) = x})>>,
                  [subject |-> x,
                   count |-> Cardinality({i \in BookIds : Subject(i) = x})]>> :
                x \in Subjects}, 10)

StatsRows ==
    {[totalBooks |-> NBooks,
      languages |-> Cardinality(Languages),
      subjects |-> Cardinality(Subjects),
      languageDistribution |-> ld,
      popularSubjects |-> ps,
      lastUpdated |-> now] : ld \in LanguageDistribution, ps \in PopularSubjects}

StatsError(message) ==
    [totalBooks |-> 0, languages |-> 0, subjects |-> 0, error |-> message]

-----------------------------------------------------------------------------
(* handleQuery: the lookups *)

\* SELECT * FROM books WHERE id = $1
BookById(bookId, vw) ==
    IF bookId.v \in BookIds THEN {FullRow(bookId.v, vw)} ELSE {Null}

\* SELECT * FROM books WHERE title ILIKE $1 LIMIT 1: any one matching row
BookByTitle(bookTitle, vw) ==
    LET found == {i \in BookIds : ILike(Title(i), Wrap(bookTitle))}
    IN  IF found = {} THEN {Null} ELSE {FullRow(i, vw) : i \in found}

-----------------------------------------------------------------------------
(* The completion service's answer to one call, as axios and JSON.parse     *)
(* deliver it:                                                              *)
(*   [kind |-> "throw"]      the call rejects: transport error, timeout or  *)
(*                           a status outside 2xx                           *)
(*   [kind |-> "nocontent"]  a body without choices[0].message.content      *)
(*   [kind |-> "text"]       content that JSON.parse rejects                *)
(*   [kind |-> "json", val |-> v]  content that parses to v, where v is     *)
(*       [t |-> "null"], [t |-> "prim"] (a number, string, boolean or       *)
(*       array), or [t |-> "obj", summary |-> s, recs |-> r]; s is <<>>     *)
(*       for a missing, null or empty summary; r is [t |-> "absent"]        *)
(*       (missing or null), [t |-> "nonarray"] or [t |-> "array",           *)
(*       items |-> seq], each item [t |-> "null"], [t |-> "prim"] or        *)
(*       [t |-> "obj", id |-> value, reason |-> text].                      *)
(***************************************************************************)

AiThrow == [kind |-> "throw"]
AiNoContent == [kind |-> "nocontent"]
AiText == [kind |-> "text"]
AiJson(v) == [kind |-> "json", val |-> v]
JNull == [t |-> "null"]
JPrim == [t |-> "prim"]
JObj(s, r) == [t |-> "obj", summary |-> s, recs |-> r]
RecsAbsent == [t |-> "absent"]
RecsNonArray == [t |-> "nonarray"]
RecsArray(items) == [t |-> "array", items |-> items]
Item(id) == [t |-> "obj", id |-> id, reason |-> <<"ai">>]

SeqsUpTo(S, n) == UNION {[1..k -> S] : k \in 0..n}

-----------------------------------------------------------------------------
(* getAIRecommendations *)

\* the prompt lists candidateBooks.slice(0, 20)
PromptMax == 20

BookList(candidateBooks) == Slice(candidateBooks, PromptMax)

ReasonHot(book) == book.subject \o <<"hot-and-fits">>
ReasonPopular(book) == <<"popular">>
ReasonFallback(book) == book.subject \o <<"|">> \o book.publisher

\* the reason text of the three places that map candidates to recommendations
Reason(which, book) ==
    CASE which = "hot" -> ReasonHot(book)
      [] which = "popular" -> ReasonPopular(book)
      [] which = "fallback" -> ReasonFallback(book)

\* candidateBooks.slice(0, limit).map(...): one recommendation per candidate
DefaultRecommendations(candidateBooks, limit, which) ==
    LET head == Slice(candidateBooks, limit)
    IN  [k \in 1..Len(head) |->
            [id |-> head[k].id, title |-> head[k].title,
             author |-> head[k].author, subject |-> head[k].subject,
             reason |-> Reason(which, head[k])]]

\* the gate left open: any object passes
IsCandidateUnchecked(rec, candidateBooks) == rec.t = "obj"

\* rec => candidateBooks.some(book => book.id === rec.id)
IsCandidate(rec, candidateBooks) ==
    /\ rec.t = "obj"
    /\ \E k \in 1..Len(candidateBooks) : candidateBooks[k].id = rec.id

\* the statements of the inner try throw a TypeError: aiResult is null,
\* recommendations has no filter method, or an element of it is null while
\* there is a candidate to compare it with
ValidationThrows(v, candidateBooks) ==
    \/ v.t = "null"
    \/ /\ v.t = "obj"
       /\ \/ v.recs.t = "nonarray"
          \/ /\ v.recs.t = "array"
             /\ candidateBooks # <<>>
             /\ \E k \in 1..Len(v.recs.items) : v.recs.items[k].t = "null"

\* aiResult.recommendations?.filter(...) || []
ValidRecommendations(v, candidateBooks) ==
    IF v.t = "obj" /\ v.recs.t = "array"
    THEN SelectSeq(v.recs.items, LAMBDA rec : IsCandidate(rec, candidateBooks))
    ELSE <<>>

\* getAIRecommendations with the parse failure answered by an empty list
GetAIRecommendationsNoFallback(userQuery, candidateBooks, limit, ai) ==
    IF ai.kind = "throw"
    THEN [summary |-> <<"recommended">>,
          recommendations |->
              DefaultRecommendations(candidateBooks, limit, "popular")]
    ELSE IF ai.kind = "json" /\ ~ValidationThrows(ai.val, candidateBooks)
    THEN [summary |-> IF ai.val.t = "obj" /\ ai.val.summary # <<>>
                      THEN ai.val.summary
                      ELSE <<"related-to">> \o userQuery,
          recommendations |->
              Slice(ValidRecommendations(ai.val, candidateBooks), limit)]
    ELSE IF ai.kind = "text"
    THEN [summary |-> <<"for-your-query">> \o userQuery,
          recommendations |-> <<>>]
    ELSE [summary |-> <<"for-your-query">> \o userQuery,
          recommendations |->
              DefaultRecommendations(candidateBooks, limit, "hot")]

\* getAIRecommendations without the .slice(0, limit) of the validated list
GetAIRecommendationsNoSlice(userQuery, candidateBooks, limit, ai) ==
    IF ai.kind = "throw"
    THEN [summary |-> <<"recommended">>,
          recommendations |->
              DefaultRecommendations(candidateBooks, limit, "popular")]
    ELSE IF ai.kind = "json" /\ ~ValidationThrows(ai.val, candidateBooks)
    THEN [summary |-> IF ai.val.t = "obj" /\ ai.val.summary # <<>>
                      THEN ai.val.summary
                      ELSE <<"related-to">> \o userQuery,
          recommendations |-> ValidRecommendations(ai.val, candidateBooks)]
    ELSE [summary |-> <<"for-your-query">> \o userQuery,
          recommendations |->
              DefaultRecommendations(candidateBooks, limit, "hot")]

GetAIRecommendations(userQuery, candidateBooks, limit, ai) ==
    IF ai.kind = "throw"
    THEN [summary |-> <<"recommended">>,
          recommendations |->
              DefaultRecommendations(candidateBooks, limit, "popular")]
    ELSE IF ai.kind = "json" /\ ~ValidationThrows(ai.val, candidateBooks)
    THEN [summary |-> IF ai.val.t = "obj" /\ ai.val.summary # <<>>
                      THEN ai.val.summary
                      ELSE <<"related-to">> \o userQuery,
          recommendations |->
              Slice(ValidRecommendations(ai.val, candidateBooks), limit)]
    ELSE [summary |-> <<"for-your-query">> \o userQuery,
          recommendations |->
              DefaultRecommendations(candidateBooks, limit, "hot")]

-----------------------------------------------------------------------------
(* Redis: getCacheKey, getFromCache, setCache *)

\* String(x) of a number inside a template literal or Array.prototype.join
NumText(x) == IF x.nan THEN <<"NaN">> ELSE <<ToString(x.v)>>

RECURSIVE Join(_)
Join(params) ==
    IF params = <<>> THEN <<>>
    ELSE IF Len(params) = 1 THEN Head(params)
    ELSE Head(params) \o <<":">> \o Join(Tail(params))

\* `library:${type}:${params.join(':')}`
GetCacheKey(type, params) == <<"library", ":", type, ":">> \o Join(params)

\* JSON.parse(JSON.stringify(data)): a member whose value is undefined is left
\* out; the only such members are the filters of a search result
DropUndefined(f) == [k \in {x \in DOMAIN f : f[x] # Absent} |-> f[k]]

JsonRoundTrip(data) ==
    IF "data" \in DOMAIN data /\ "filters" \in DOMAIN data.data
    THEN [data EXCEPT !.data.filters = DropUndefined(@)]
    ELSE data

Live(key) == key \in DOMAIN cache /\ now < cache[key].exp

\* getFromCache: null without a client, on a rejected GET and on a missing or
\* expired key, else the parsed value
GetFromCache(key) ==
    IF redis = "up" /\ Live(key) THEN cache[key].data ELSE Null

\* setCache that leaves a key that is there alone (SET ... NX)
SetCacheIfAbsent(key, data, ttl) ==
    IF redis = "up" /\ ~Live(key)
    THEN (key :> [data |-> JsonRoundTrip(data), exp |-> now + ttl, ttl |-> ttl]) @@ cache
    ELSE cache

\* setCache: SETEX key ttl JSON.stringify(data); nothing without a client, and
\* a rejected command is logged
SetCache(key, data, ttl) ==
    IF redis = "up"
    THEN (key :> [data |-> JsonRoundTrip(data), exp |-> now + ttl, ttl |-> ttl]) @@ cache
    ELSE cache

-----------------------------------------------------------------------------
(* Requests *)

Slots == {1, 2}

NoReq ==
    [op |-> "none", pc |-> "idle", method |-> "GET",
     query |-> Absent, limit |-> Absent, page |-> Absent,
     language |-> Absent, subject |-> Absent,
     bookId |-> Absent, bookTitle |-> Absent, question |-> Absent,
     searchQuery |-> <<>>, limitNum |-> Num(0), pageNum |-> Num(0),
     key |-> <<>>,
     candidateBooks |-> <<>>, rows |-> <<>>, book |-> Null,
     status |-> 0, body |-> Null,
     \* what the request did, for the properties
     hit |-> FALSE, dbCalls |-> 0, updates |-> 0, aiCalls |-> 0, ai |-> Null,
     dbFailed |-> FALSE, wrote |-> <<>>]

CanStart(r) == reqs[r].pc \in {"idle", "done"} /\ started < MaxStarted

\* res.status(code).json(body): the body goes out as JSON
Respond(req, code, body) ==
    [req EXCEPT !.pc = "done", !.status = code, !.body = JsonRoundTrip(body)]

Wrote(req, key, data, ttl) ==
    IF redis = "up"
    THEN [req EXCEPT !.wrote = Append(@, [key |-> key, ttl |-> ttl,
                                          data |-> JsonRoundTrip(data)])]
    ELSE req

-----------------------------------------------------------------------------
(* handleRecommend *)

NoResults == [summary |-> <<"nothing-found">>, recommendations |-> <<>>]

\* an array is truthy, the empty one too
Truthy(array) == TRUE

\* the result object built from what getAIRecommendations returned
RecommendResult(searchQuery, candidateBooks, limitNum, aiRecommendations) ==
    [summary |-> IF aiRecommendations.summary # <<>>
                 THEN aiRecommendations.summary
                 ELSE <<"by-your-query">> \o searchQuery,
     recommendations |->
        IF Truthy(aiRecommendations.recommendations)
        THEN aiRecommendations.recommendations
        ELSE DefaultRecommendations(candidateBooks, limitNum, "fallback")]

\* from the entry of the handler to the GET sent to Redis
RecommendStart(r, m, q, l) ==
    /\ CanStart(r)
    /\ started' = started + 1
    /\ LET req == [NoReq EXCEPT !.op = "recommend", !.method = m,
                                !.query = q, !.limit = l]
       IN  reqs' = [reqs EXCEPT ![r] =
             IF m # "POST"
             THEN Respond(req, 405, [error |-> "post-only"])
             ELSE IF q.t = "num"
             \* query.trim is not a function: the handler's catch answers
             THEN Respond(req, 500, [error |-> "recommend-unavailable",
                                     summary |-> <<"try-later">>,
                                     recommendations |-> <<>>])
             ELSE IF q.t = "absent" \/ Trim(q.s) = <<>>
             THEN Respond(req, 400, [error |-> "missing-query",
                                     summary |-> <<"give-a-query">>,
                                     recommendations |-> <<>>])
             ELSE LET sq == Trim(q.s)
                      ln == MathMin(20, MathMax(1, ParseInt(l, 10)))
                  IN  [req EXCEPT !.pc = "get", !.searchQuery = sq,
                                  !.limitNum = ln,
                                  !.key = GetCacheKey("recommend",
                                              <<sq, NumText(ln)>>)]]
    /\ UNCHANGED <<cache, redis, db, views, pending, now, libVars>>

\* a hit that stores the value again, with a new expiry
RecommendGetRefreshes(r) ==
    /\ reqs[r].op = "recommend" /\ reqs[r].pc = "get"
    /\ LET req == reqs[r]
           v == GetFromCache(req.key)
       IN  /\ reqs' = [reqs EXCEPT ![r] =
                 IF v # Null
                 THEN [Respond(req, 200, v) EXCEPT !.hit = TRUE]
                 ELSE [req EXCEPT !.pc = "search",
                                  !.dbCalls = IF db = "nopool" THEN @ ELSE @ + 1]]
           /\ cache' = IF v # Null THEN SetCache(req.key, v, 600) ELSE cache
    /\ UNCHANGED <<redis, db, views, pending, now, started, libVars>>

\* the reply to the GET: a hit answers; a miss runs searchCandidateBooks up
\* to its query
RecommendGet(r) ==
    /\ reqs[r].op = "recommend" /\ reqs[r].pc = "get"
    /\ LET req == reqs[r]
           v == GetFromCache(req.key)
       IN  reqs' = [reqs EXCEPT ![r] =
             IF v # Null
             THEN [Respond(req, 200, v) EXCEPT !.hit = TRUE]
             ELSE [req EXCEPT !.pc = "search",
                              !.dbCalls = IF db = "nopool" THEN @ ELSE @ + 1]]
    /\ UNCHANGED <<cache, redis, db, views, pending, now, started, libVars>>

\* handleRecommend without the early return on an empty candidate list
RecommendSearchNoEarlyReturn(r) ==
    /\ reqs[r].op = "recommend" /\ reqs[r].pc = "search"
    /\ LET req == reqs[r]
           limit == IF req.limitNum.nan THEN NaN ELSE Num(req.limitNum.v * 3)
       IN  \E rows \in SearchCandidateBooks(req.searchQuery, limit, db, views) :
             /\ cache' = cache
             /\ reqs' = [reqs EXCEPT ![r] =
                   [req EXCEPT !.candidateBooks = rows,
                               !.dbFailed = (db # "up" \/ limit.nan),
                               !.pc = "ai", !.aiCalls = @ + 1]]
    /\ UNCHANGED <<redis, db, views, pending, now, started, libVars>>

\* searchCandidateBooks returns: without candidates the "nothing found"
\* result is stored and sent, else the completion service is called
RecommendSearch(r) ==
    /\ reqs[r].op = "recommend" /\ reqs[r].pc = "search"
    /\ LET req == reqs[r]
           limit == IF req.limitNum.nan THEN NaN ELSE Num(req.limitNum.v * 3)
       IN  \E rows \in SearchCandidateBooks(req.searchQuery, limit, db, views) :
             LET got == [req EXCEPT !.candidateBooks = rows,
                                    !.dbFailed = (db # "up" \/ limit.nan)]
             IN  IF rows = <<>>
                 THEN /\ cache' = SetCache(req.key, NoResults, 300)
                      /\ reqs' = [reqs EXCEPT ![r] =
                            Respond(Wrote(got, req.key, NoResults, 300),
                                    200, NoResults)]
                 ELSE /\ cache' = cache
                      /\ reqs' = [reqs EXCEPT ![r] =
                            [got EXCEPT !.pc = "ai", !.aiCalls = @ + 1]]
    /\ UNCHANGED <<redis, db, views, pending, now, started, libVars>>

\* a failed call to the completion service made once more
RecommendAiRetry(r, ai) ==
    /\ reqs[r].op = "recommend" /\ reqs[r].pc = "ai"
    /\ LET req == reqs[r]
           aiRecommendations ==
               GetAIRecommendations(req.searchQuery, req.candidateBooks,
                                    req.limitNum.v, ai)
           result == RecommendResult(req.searchQuery, req.candidateBooks,
                                     req.limitNum.v, aiRecommendations)
       IN  IF ai = AiThrow /\ req.aiCalls < 2
           THEN /\ cache' = cache
                /\ reqs' = [reqs EXCEPT ![r] = [req EXCEPT !.aiCalls = @ + 1]]
           ELSE /\ cache' = SetCache(req.key, result, 600)
                /\ reqs' = [reqs EXCEPT ![r] =
                      Respond(Wrote([req EXCEPT !.ai = ai], req.key, result, 600),
                              200, result)]
    /\ UNCHANGED <<redis, db, views, pending, now, started, libVars>>

\* the completion service answers (or the call fails): getAIRecommendations
\* returns, the result is stored and sent
RecommendAi(r, ai) ==
    /\ reqs[r].op = "recommend" /\ reqs[r].pc = "ai"
    /\ LET req == reqs[r]
           aiRecommendations ==
               GetAIRecommendations(req.searchQuery, req.candidateBooks,
                                    req.limitNum.v, ai)
           result == RecommendResult(req.searchQuery, req.candidateBooks,
                                     req.limitNum.v, aiRecommendations)
       IN  /\ cache' = SetCache(req.key, result, 600)
           /\ reqs' = [reqs EXCEPT ![r] =
                 Respond(Wrote([req EXCEPT !.ai = ai], req.key, result, 600),
                         200, result)]
    /\ UNCHANGED <<redis, db, views, pending, now, started, libVars>>

-----------------------------------------------------------------------------
(* handleSearch *)

SearchError == [success |-> FALSE, error |-> "search-unavailable"]

\* params is what `req.method === 'GET' ? req.query : req.body` yields: an
\* object, or undefined for a POST that carries no body
SearchStart(r, params, q, pg, l, lang, subj) ==
    /\ CanStart(r)
    /\ started' = started + 1
    /\ LET req == [NoReq EXCEPT !.op = "search", !.query = q, !.page = pg,
                                !.limit = l, !.language = lang,
                                !.subject = subj,
                                !.method = IF params = "undefined" THEN "POST"
                                           ELSE "GET"]
       IN  reqs' = [reqs EXCEPT ![r] =
             IF params = "undefined"
             \* the destructuring of undefined throws: the handler's catch answers
             THEN Respond(req, 500, SearchError)
             ELSE IF q.t = "num"
             \* query.trim is not a function: the handler's catch answers
             THEN Respond(req, 500, SearchError)
             ELSE IF q.t = "absent" \/ Trim(q.s) = <<>>
             THEN Respond(req, 400, [success |-> FALSE,
                                     error |-> "missing-keyword"])
             ELSE LET sq == Trim(q.s)
                      pn == MathMax(1, ParseInt(pg, 1))
                      ln == MathMin(50, MathMax(1, ParseInt(l, 20)))
                  IN  [req EXCEPT !.pc = "get", !.searchQuery = sq,
                                  !.pageNum = pn, !.limitNum = ln,
                                  !.key = GetCacheKey("search",
                                      <<sq, NumText(pn), NumText(ln),
                                        OrEmpty(lang), OrEmpty(subj)>>)]]
    /\ UNCHANGED <<cache, redis, db, views, pending, now, libVars>>

\* handleSearch never looking at what the cache returned
SearchGetNoCache(r) ==
    /\ reqs[r].op = "search" /\ reqs[r].pc = "get"
    /\ LET req == reqs[r]
       IN  reqs' = [reqs EXCEPT ![r] =
             IF db = "nopool"
             THEN [Respond(req, 500, SearchError) EXCEPT !.dbFailed = TRUE]
             ELSE [req EXCEPT !.pc = "rows", !.dbCalls = @ + 1]]
    /\ UNCHANGED <<cache, redis, db, views, pending, now, started, libVars>>

\* getFromCache without its try/catch: a rejected GET reaches the handler's
\* catch
SearchGetCacheThrows(r) ==
    /\ reqs[r].op = "search" /\ reqs[r].pc = "get"
    /\ LET req == reqs[r]
           v == GetFromCache(req.key)
       IN  reqs' = [reqs EXCEPT ![r] =
             IF redis = "failing"
             THEN Respond(req, 500, SearchError)
             ELSE IF v # Null
             THEN [Respond(req, 200, v) EXCEPT !.hit = TRUE]
             ELSE IF db = "nopool"
             THEN [Respond(req, 500, SearchError) EXCEPT !.dbFailed = TRUE]
             ELSE [req EXCEPT !.pc = "rows", !.dbCalls = @ + 1]]
    /\ UNCHANGED <<cache, redis, db, views, pending, now, started, libVars>>

\* the reply to the GET: a hit answers; a miss sends the row query, which
\* without a pool is a TypeError on null
SearchGet(r) ==
    /\ reqs[r].op = "search" /\ reqs[r].pc = "get"
    /\ LET req == reqs[r]
           v == GetFromCache(req.key)
       IN  reqs' = [reqs EXCEPT ![r] =
             IF v # Null
             THEN [Respond(req, 200, v) EXCEPT !.hit = TRUE]
             ELSE IF db = "nopool"
             THEN [Respond(req, 500, SearchError) EXCEPT !.dbFailed = TRUE]
             ELSE [req EXCEPT !.pc = "rows", !.dbCalls = @ + 1]]
    /\ UNCHANGED <<cache, redis, db, views, pending, now, started, libVars>>

\* the row query returns or is rejected; after it the count query is sent
SearchRows(r) ==
    /\ reqs[r].op = "search" /\ reqs[r].pc = "rows"
    /\ LET req == reqs[r]
       IN  IF db # "up" \/ req.pageNum.nan \/ req.limitNum.nan
           THEN reqs' = [reqs EXCEPT ![r] =
                  [Respond(req, 500, SearchError) EXCEPT !.dbFailed = TRUE]]
           ELSE \E rows \in SearchRowsQuery(req.searchQuery, req.language,
                                req.subject, req.limitNum.v,
                                (req.pageNum.v - 1) * req.limitNum.v, views) :
                  reqs' = [reqs EXCEPT ![r] =
                    [req EXCEPT !.pc = "count", !.rows = rows,
                                !.dbCalls = @ + 1]]
    /\ UNCHANGED <<cache, redis, db, views, pending, now, started, libVars>>

\* the count query returns or is rejected; the result is stored and sent
SearchCount(r) ==
    /\ reqs[r].op = "search" /\ reqs[r].pc = "count"
    /\ LET req == reqs[r]
           result == SearchResult(req, SearchCountQuery(req.searchQuery,
                                           req.language, req.subject))
       IN  IF db # "up"
           THEN /\ cache' = cache
                /\ reqs' = [reqs EXCEPT ![r] =
                      [Respond(req, 500, SearchError) EXCEPT !.dbFailed = TRUE]]
           ELSE /\ cache' = SetCache(req.key, result, 300)
                /\ reqs' = [reqs EXCEPT ![r] =
                      Respond(Wrote(req, req.key, result, 300), 200, result)]
    /\ UNCHANGED <<redis, db, views, pending, now, started, libVars>>

-----------------------------------------------------------------------------
(* handleStats and getDatabaseStats *)

StatsResponse(stats) == [success |-> TRUE, data |-> stats]

StatsStart(r) ==
    /\ CanStart(r)
    /\ started' = started + 1
    /\ reqs' = [reqs EXCEPT ![r] =
          [NoReq EXCEPT !.op = "stats", !.pc = "get",
                        !.key = GetCacheKey("stats", <<<<"overview">>>>)]]
    /\ UNCHANGED <<cache, redis, db, views, pending, now, libVars>>

\* the reply to the GET: a hit answers; a miss without a pool returns the
\* zeroes, with a pool sends the five queries
StatsGet(r) ==
    /\ reqs[r].op = "stats" /\ reqs[r].pc = "get"
    /\ LET req == reqs[r]
           v == GetFromCache(req.key)
       IN  reqs' = [reqs EXCEPT ![r] =
             IF v # Null
             THEN [Respond(req, 200, StatsResponse(v)) EXCEPT !.hit = TRUE]
             ELSE IF db = "nopool"
             THEN [Respond(req, 200, StatsResponse(StatsError("no-connection")))
                      EXCEPT !.dbFailed = TRUE]
             ELSE [req EXCEPT !.pc = "statsq", !.dbCalls = @ + 5]]
    /\ UNCHANGED <<cache, redis, db, views, pending, now, started, libVars>>

\* Promise.all settles: all five returned, or one was rejected
StatsQuery(r) ==
    /\ reqs[r].op = "stats" /\ reqs[r].pc = "statsq"
    /\ LET req == reqs[r]
       IN  IF db # "up"
           THEN /\ cache' = cache
                /\ reqs' = [reqs EXCEPT ![r] =
                      [Respond(req, 200, StatsResponse(StatsError("query-failed")))
                          EXCEPT !.dbFailed = TRUE]]
           ELSE \E stats \in StatsRows :
                /\ cache' = SetCache(req.key, stats, 1800)
                /\ reqs' = [reqs EXCEPT ![r] =
                      Respond(Wrote(req, req.key, stats, 1800), 200,
                              StatsResponse(stats))]
    /\ UNCHANGED <<redis, db, views, pending, now, started, libVars>>

-----------------------------------------------------------------------------
(* handleQuery and getAIBookAnswer *)

QueryError(code) == [error |-> code, answer |-> <<"sorry">>, book |-> Null]

DefaultAnswer(book) == <<"about">> \o book.title

QueryResult(book, answer) ==
    [success |-> TRUE,
     answer |-> answer,
     book |-> [id |-> book.id, title |-> book.title, author |-> book.author,
               publisher |-> book.publisher, subject |-> book.subject,
               language |-> book.language, callno |-> book.callno,
               popularity |-> book.popularity, viewCount |-> book.view_count,
               status |-> book.status,
               summary |-> book.subject \o <<"published-by">> \o book.publisher,
               lastViewed |-> now]]

\* userQuestion && userQuestion.trim()
HasQuestion(p) == ~Falsy(p) /\ Trim(p.s) # <<>>

\* the handler from `if (!book)` to its next await or its answer
AfterLookup(req, book) ==
    IF book = Null
    THEN Respond(req, 404, QueryError("not-found"))
    ELSE LET counted == [req EXCEPT !.book = book,
                                    !.updates = IF db = "nopool" THEN @ ELSE @ + 1]
         IN  IF HasQuestion(req.question)
             THEN [counted EXCEPT !.pc = "answer", !.aiCalls = @ + 1]
             ELSE Respond(counted, 200, QueryResult(book, DefaultAnswer(book)))

\* the UPDATE sent twice
PendingAfterTwice(book) ==
    IF book = Null \/ db = "nopool" THEN pending
    ELSE [pending EXCEPT ![book.id.v] = @ + 2]

\* the UPDATE sent and not awaited
PendingAfter(book) ==
    IF book = Null \/ db = "nopool" THEN pending
    ELSE [pending EXCEPT ![book.id.v] = @ + 1]

QueryStart(r, m, id, title, question) ==
    /\ CanStart(r)
    /\ started' = started + 1
    /\ LET req == [NoReq EXCEPT !.op = "query", !.method = m, !.bookId = id,
                                !.bookTitle = title, !.question = question]
       IN  reqs' = [reqs EXCEPT ![r] =
             IF m # "POST"
             THEN Respond(req, 405, QueryError("post-only"))
             ELSE IF id.t = "absent" /\ Falsy(title)
             THEN Respond(req, 400, QueryError("missing-parameter"))
             ELSE [req EXCEPT !.pc = "get",
                      !.key = IF id.t # "absent"
                              THEN GetCacheKey("book", <<NumText(Num(id.v))>>)
                              ELSE GetCacheKey("book_title", <<title.s>>)]]
    /\ UNCHANGED <<cache, redis, db, views, pending, now, libVars>>

\* the reply to the GET: a cached book (or no pool) goes on, else the SELECT
\* is sent
QueryGet(r) ==
    /\ reqs[r].op = "query" /\ reqs[r].pc = "get"
    /\ LET req == reqs[r]
           book == GetFromCache(req.key)
       IN  IF book = Null /\ db # "nopool"
           THEN /\ reqs' = [reqs EXCEPT ![r] =
                      [req EXCEPT !.pc = "lookup", !.dbCalls = @ + 1]]
                /\ pending' = pending
           ELSE /\ reqs' = [reqs EXCEPT ![r] =
                      AfterLookup([req EXCEPT !.hit = (book # Null)], book)]
                /\ pending' = PendingAfter(book)
    /\ UNCHANGED <<cache, redis, db, views, now, started, libVars>>

\* the SELECT returns or is rejected; a row found is stored
QueryLookup(r) ==
    /\ reqs[r].op = "query" /\ reqs[r].pc = "lookup"
    /\ LET req == reqs[r]
       IN  IF db # "up"
           THEN /\ reqs' = [reqs EXCEPT ![r] =
                      [Respond(req, 500, QueryError("unavailable"))
                          EXCEPT !.dbFailed = TRUE]]
                /\ UNCHANGED <<cache, pending>>
           ELSE \E book \in (IF req.bookId.t # "absent"
                              THEN BookById(req.bookId, views)
                              ELSE BookByTitle(req.bookTitle.s, views)) :
                /\ cache' = IF book = Null THEN cache
                            ELSE SetCache(req.key, book, 3600)
                /\ reqs' = [reqs EXCEPT ![r] =
                      AfterLookup(IF book = Null THEN req
                                  ELSE Wrote(req, req.key, book, 3600), book)]
                /\ pending' = PendingAfter(book)
    /\ UNCHANGED <<redis, db, views, now, started, libVars>>

\* a failure of the completion service passed on to the caller
QueryAnswerSurfacesFailure(r, ai) ==
    /\ reqs[r].op = "query" /\ reqs[r].pc = "answer"
    /\ LET req == reqs[r]
       IN  reqs' = [reqs EXCEPT ![r] =
             IF ai.kind = "text"
             THEN Respond([req EXCEPT !.ai = ai], 200,
                          QueryResult(req.book, <<"ai-answer">>))
             ELSE Respond([req EXCEPT !.ai = ai], 500, QueryError("unavailable"))]
    /\ UNCHANGED <<cache, redis, db, views, pending, now, started, libVars>>

\* getAIBookAnswer returns: the content, or null when the call failed or the
\* body has no content
QueryAnswer(r, ai) ==
    /\ reqs[r].op = "query" /\ reqs[r].pc = "answer"
    /\ LET req == reqs[r]
           aiAnswer == IF ai.kind = "text" THEN <<"ai-answer">> ELSE <<>>
           answer == IF aiAnswer # <<>> THEN aiAnswer ELSE DefaultAnswer(req.book)
       IN  reqs' = [reqs EXCEPT ![r] =
             Respond([req EXCEPT !.ai = ai], 200, QueryResult(req.book, answer))]
    /\ UNCHANGED <<cache, redis, db, views, pending, now, started, libVars>>

\* a pending UPDATE books SET view_count = view_count + 1 is executed, or is
\* rejected and logged
UpdateViewCount(i) ==
    /\ pending[i] > 0
    /\ pending' = [pending EXCEPT ![i] = @ - 1]
    /\ views' = IF db = "up" THEN [views EXCEPT ![i] = @ + 1] ELSE views
    /\ UNCHANGED <<reqs, cache, redis, db, now, started, libVars>>

-----------------------------------------------------------------------------
(* The environment *)

\* the database server goes down or comes back
DbFlip ==
    /\ db \in {"up", "down"}
    /\ db' = IF db = "up" THEN "down" ELSE "up"
    /\ UNCHANGED <<reqs, cache, redis, views, pending, now, started, libVars>>

\* time passes; Redis drops the keys whose time to live is over
Tick ==
    /\ now + TickSecs <= MaxNow
    /\ now' = now + TickSecs
    /\ cache' = [k \in {x \in DOMAIN cache : now' < cache[x].exp} |-> cache[k]]
    /\ UNCHANGED <<reqs, redis, db, views, pending, started, libVars>>

-----------------------------------------------------------------------------
(* The recommendation step on its own: one recommend request, every answer  *)
(* of the completion service                                                *)

QueryAB == <<"a", "b">>                 \* every row matches it
QueryTraditional == <<"xiao", "shuoT">> \* rows 4 and 8 match its simplified form
QueryNone == <<"z">>                    \* no row matches it

RecQueries ==
    {Absent, NumParam(7), Str(<<" ">>), Str(<<" ">> \o QueryAB),
     Str(QueryTraditional), Str(QueryNone)}

RecLimits ==
    {Absent, NumParam(0), NumParam(5), NumParam(7), NumParam(25), Str(<<"x">>)}

\* identifiers the service may name: the first and the last candidate, the
\* first candidate's id as a string, and an id that is in no row
AiIds(candidateBooks) ==
    IF candidateBooks = <<>> THEN {IdVal(NBooks + 1)}
    ELSE {candidateBooks[1].id, candidateBooks[Len(candidateBooks)].id,
          [t |-> "str", v |-> candidateBooks[1].id.v], IdVal(NBooks + 1)}

AiItems(candidateBooks) ==
    {Item(i) : i \in AiIds(candidateBooks)} \cup {JNull, JPrim}

AiOutcomes(candidateBooks) ==
    {AiThrow, AiNoContent, AiText, AiJson(JNull), AiJson(JPrim)}
    \cup {AiJson(JObj(s, r)) :
            s \in {<<>>, <<"ai-summary">>},
            r \in {RecsAbsent, RecsNonArray}
                  \cup {RecsArray(items) :
                          items \in SeqsUpTo(AiItems(candidateBooks), MaxRecs)}}

-----------------------------------------------------------------------------
(* Pagination blocks: handleSearch of src/index.js, the handler of         *)
(* src/api/books/search.js and dbUtils.paginate of src/lib/database.js     *)

MaxPage == 5        \* pages asked for
MaxPageSize == 4    \* page sizes asked for
MaxTotal == 9       \* rows the filter matches

\* handleSearch: result.data.pagination
PgPagination(pageNum, limitNum, total) ==
    SearchResult([NoReq EXCEPT !.pageNum = Num(pageNum),
                               !.limitNum = Num(limitNum)], total).data.pagination

\* a has-next flag that still holds on the last page
MongoPaginationInclusive(pageNum, limitNum, totalCount) ==
    LET totalPages == CeilDiv(totalCount, limitNum)
        hasNextPage == pageNum <= totalPages
        hasPrevPage == pageNum > 1
    IN  [current |-> pageNum, total |-> totalPages, limit |-> limitNum,
         hasNext |-> hasNextPage, hasPrev |-> hasPrevPage]

\* api/books/search.js: the pagination block of the response
MongoPagination(pageNum, limitNum, totalCount) ==
    LET totalPages == CeilDiv(totalCount, limitNum)
        hasNextPage == pageNum < totalPages
        hasPrevPage == pageNum > 1
    IN  [current |-> pageNum, total |-> totalPages, limit |-> limitNum,
         hasNext |-> hasNextPage, hasPrev |-> hasPrevPage]

\* dbUtils.paginate: what it returns besides the data
Paginate(page, limit, total) ==
    [total |-> total, page |-> page, limit |-> limit,
     totalPages |-> CeilDiv(total, limit),
     hasMore |-> page * limit < total]

PageRequest(page, pageSize, total) ==
    [page |-> page, pageSize |-> pageSize, total |-> total,
     pg |-> Null, mongo |-> Null, util |-> Null]

PageIdle == paging = PageRequest(1, 1, 0)

\* handleSearch builds its result for the page
SearchPaginates ==
    /\ paging.pg = Null
    /\ paging' = [paging EXCEPT
                    !.pg = PgPagination(paging.page, paging.pageSize, paging.total)]
    /\ UNCHANGED <<apiVars, mongoVars, memVars, relatedVars>>

\* the MongoDB search handler builds its response for the page
MongoSearchPaginates ==
    /\ paging.mongo = Null
    /\ paging' = [paging EXCEPT
                    !.mongo = MongoPagination(paging.page, paging.pageSize,
                                              paging.total)]
    /\ UNCHANGED <<apiVars, mongoVars, memVars, relatedVars>>

\* dbUtils.paginate returns for the page
UtilPaginates ==
    /\ paging.util = Null
    /\ paging' = [paging EXCEPT
                    !.util = Paginate(paging.page, paging.pageSize, paging.total)]
    /\ UNCHANGED <<apiVars, mongoVars, memVars, relatedVars>>

-----------------------------------------------------------------------------
(* lib/database.js: connectToDatabase and closeConnection.  A MongoClient  *)
(* is named by the order of its creation; the db handle cachedClient.db()  *)
(* returns carries its client's name; 0 is null.  A call runs from one     *)
(* await to the next without interruption.                                 *)

MaxClients == 3     \* MongoClient objects created
MaxCalls == 3       \* concurrent connectToDatabase calls

Calls == 1..MaxCalls

\* new MongoClient(MONGODB_URI, options)
NewClient == [connect |-> "pending", pinged |-> FALSE, closed |-> FALSE,
              discarded |-> FALSE]

NoCall == [pc |-> "idle", awaits |-> 0, client |-> 0, db |-> 0, own |-> FALSE]
NoClose == [pc |-> "idle", awaits |-> 0]

MongoIdle ==
    /\ cachedClient = 0
    /\ cachedDb = 0
    /\ clients = <<>>
    /\ calls = [c \in Calls |-> NoCall]
    /\ closing = NoClose

\* return { client: cachedClient, db: cachedDb }
Returned(call) ==
    [call EXCEPT !.pc = "returned", !.client = cachedClient, !.db = cachedDb]

\* the catch block's effect on the objects it lets go of
Discard(cs) ==
    [n \in DOMAIN cs |->
        IF n \in {cachedClient, cachedDb}
        THEN [cs[n] EXCEPT !.discarded = TRUE]
        ELSE cs[n]]

\* catch (error): cachedClient = null; cachedDb = null; throw
Caught(c, cs, own) ==
    /\ cachedClient' = 0
    /\ cachedDb' = 0
    /\ clients' = Discard(cs)
    /\ calls' = [calls EXCEPT ![c] = [@ EXCEPT !.pc = "threw", !.own = own]]

\* if (!cachedDb) { cachedDb = cachedClient.db(DB_NAME); await ping } return
GetDb(c, cs) ==
    IF cachedDb = 0
    THEN IF cachedClient = 0
         THEN Caught(c, cs, FALSE)      \* TypeError: cachedClient is null
         ELSE /\ cachedDb' = cachedClient
              /\ calls' = [calls EXCEPT ![c] = [@ EXCEPT !.pc = "ping",
                                                         !.awaits = cachedClient]]
              /\ clients' = cs
              /\ UNCHANGED cachedClient
    ELSE /\ calls' = [calls EXCEPT ![c] = Returned(@)]
         /\ clients' = cs
         /\ UNCHANGED <<cachedClient, cachedDb>>

\* connectToDatabase up to its first await
ConnectCall(c) ==
    /\ calls[c].pc = "idle"
    /\ IF cachedDb # 0 /\ cachedClient # 0
       THEN /\ calls' = [calls EXCEPT ![c] = Returned(@)]
            /\ UNCHANGED <<cachedClient, cachedDb, clients>>
       ELSE IF cachedClient = 0
            THEN /\ Len(clients) < MaxClients
                 /\ clients' = Append(clients, NewClient)
                 /\ cachedClient' = Len(clients) + 1
                 /\ calls' = [calls EXCEPT ![c] = [@ EXCEPT !.pc = "connect",
                                                            !.awaits = Len(clients) + 1]]
                 /\ UNCHANGED cachedDb
            ELSE GetDb(c, clients)
    /\ UNCHANGED <<apiVars, pageVars, memVars, relatedVars, closing>>

\* await cachedClient.connect() settles
Connected(c, ok) ==
    /\ calls[c].pc = "connect"
    /\ IF ok
       THEN GetDb(c, [clients EXCEPT ![calls[c].awaits].connect = "ok"])
       ELSE Caught(c, [clients EXCEPT ![calls[c].awaits].connect = "failed"], TRUE)
    /\ UNCHANGED <<apiVars, pageVars, memVars, relatedVars, closing>>

\* a ping can succeed on a client that was not closed and whose connect did
\* not fail
PingOutcomes(client) ==
    IF client.closed \/ client.connect = "failed" THEN {FALSE} ELSE BOOLEAN

\* await cachedDb.admin().ping() settles
Pinged(c, ok) ==
    /\ calls[c].pc = "ping"
    /\ ok \in PingOutcomes(clients[calls[c].awaits])
    /\ IF ok
       THEN /\ clients' = [clients EXCEPT ![calls[c].awaits].pinged = TRUE]
            /\ calls' = [calls EXCEPT ![c] = Returned(@)]
            /\ UNCHANGED <<cachedClient, cachedDb>>
       ELSE Caught(c, clients, TRUE)
    /\ UNCHANGED <<apiVars, pageVars, memVars, relatedVars, closing>>

\* closeConnection up to its await
CloseCall ==
    /\ closing.pc = "idle"
    /\ closing' = IF cachedClient # 0
                  THEN [pc |-> "close", awaits |-> cachedClient]
                  ELSE [pc |-> "done", awaits |-> 0]
    /\ UNCHANGED <<apiVars, pageVars, memVars, relatedVars,
                   cachedClient, cachedDb, clients, calls>>

\* await cachedClient.close() settles
Closed(ok) ==
    /\ closing.pc = "close"
    /\ closing' = [closing EXCEPT !.pc = "done"]
    /\ IF ok
       THEN /\ clients' = [clients EXCEPT ![closing.awaits].closed = TRUE]
            /\ cachedClient' = 0
            /\ cachedDb' = 0
       ELSE UNCHANGED <<cachedClient, cachedDb, clients>>
    /\ UNCHANGED <<apiVars, pageVars, memVars, relatedVars, calls>>

-----------------------------------------------------------------------------
(* lib/database.js: cacheManager, the in-memory cache of the MongoDB       *)
(* handlers.  cacheManager.cache is a function whose domain is the keys    *)
(* the Map holds.                                                          *)

DefaultTtl == 300000    \* set(key, value, ttl = 300000)
MaxMemNow == 3          \* clock readings next to a set that are told apart

\* api/books/hot.js: `hot_books_${category || 'all'}_${limitNum}`
MemKeys == {"hot_books_all_10", "hot_books_all_20"}
MemValues == {[v |-> "books"], [v |-> "more books"]}
\* the ttl argument: left out (0 stands for undefined), or milliseconds
MemTtls == {[given |-> FALSE, ms |-> 0], [given |-> TRUE, ms |-> 0],
            [given |-> TRUE, ms |-> 1], [given |-> TRUE, ms |-> 2]}

NoTrace == [op |-> [name |-> "none", key |-> ""],
            last |-> [k \in MemKeys |-> Null],
            got |-> Null]

MemIdle ==
    /\ memCache = [k \in {} |-> Null]
    /\ memNow = 0
    /\ memTrace = NoTrace

\* Map.prototype.get: undefined (Null) for a key the Map does not hold
MapGet(map, key) == IF key \in DOMAIN map THEN map[key] ELSE Null
\* Map.prototype.set
MapSet(map, key, item) ==
    [k \in DOMAIN map \cup {key} |-> IF k = key THEN item ELSE map[k]]
\* Map.prototype.delete
MapDelete(map, key) == [k \in DOMAIN map \ {key} |-> map[k]]

\* cacheManager.set(key, value, ttl)
MemSet(key, value, ttl) ==
    LET ms == IF ttl.given THEN ttl.ms ELSE DefaultTtl
        expireTime == memNow + ms
    IN  /\ memCache' = MapSet(memCache, key,
                              [value |-> value, expireTime |-> expireTime])
        /\ memTrace' = [op |-> [name |-> "set", key |-> key],
                        last |-> [memTrace.last EXCEPT
                                    ![key] = [value |-> value, at |-> memNow,
                                              ttl |-> ms]],
                        got |-> Null]
        /\ UNCHANGED <<apiVars, pageVars, mongoVars, relatedVars, memNow>>

\* a get that lets go of an entry one millisecond early
MemGetExpiresEarly(key) ==
    LET item == MapGet(memCache, key)
        expired == item # Null /\ memNow >= item.expireTime
        result == IF item = Null \/ expired THEN Null ELSE item.value
    IN  /\ memCache' = IF expired THEN MapDelete(memCache, key) ELSE memCache
        /\ memTrace' = [memTrace EXCEPT
                          !.op = [name |-> "get", key |-> key],
                          !.got = [key |-> key, result |-> result, at |-> memNow]]
        /\ UNCHANGED <<apiVars, pageVars, mongoVars, relatedVars, memNow>>

\* cacheManager.get(key)
MemGet(key) ==
    LET item == MapGet(memCache, key)
        expired == item # Null /\ memNow > item.expireTime
        result == IF item = Null \/ expired THEN Null ELSE item.value
    IN  /\ memCache' = IF expired THEN MapDelete(memCache, key) ELSE memCache
        /\ memTrace' = [memTrace EXCEPT
                          !.op = [name |-> "get", key |-> key],
                          !.got = [key |-> key, result |-> result, at |-> memNow]]
        /\ UNCHANGED <<apiVars, pageVars, mongoVars, relatedVars, memNow>>

\* cacheManager.delete(key)
MemDelete(key) ==
    /\ memCache' = MapDelete(memCache, key)
    /\ memTrace' = [op |-> [name |-> "delete", key |-> key],
                    last |-> [memTrace.last EXCEPT ![key] = Null],
                    got |-> Null]
    /\ UNCHANGED <<apiVars, pageVars, mongoVars, relatedVars, memNow>>

\* cacheManager.clear()
MemClear ==
    /\ memCache' = [k \in {} |-> Null]
    /\ memTrace' = [op |-> [name |-> "clear", key |-> ""],
                    last |-> [k \in MemKeys |-> Null],
                    got |-> Null]
    /\ UNCHANGED <<apiVars, pageVars, mongoVars, relatedVars, memNow>>

\* Date.now() moves on, by a millisecond or by the default ttl
MemTick(ms) ==
    /\ (memNow % DefaultTtl) + (ms % DefaultTtl) <= MaxMemNow
    /\ memNow + ms <= DefaultTtl + MaxMemNow
    /\ memNow' = memNow + ms
    /\ memTrace' = [memTrace EXCEPT !.op = [name |-> "tick", key |-> ""],
                                    !.got = Null]
    /\ UNCHANGED <<apiVars, pageVars, mongoVars, relatedVars, memCache>>

-----------------------------------------------------------------------------
(* api/books/related.js: the related-books handler and the books           *)
(* collection it reads.  A document is named by a number; req.query.bookId *)
(* is the text of such a name (0: the parameter is missing).               *)

NDocs == 24             \* documents of the books collection
RelatedMax == 20        \* Math.min(20, parseInt(limit))
RelatedDefaultLimit == 8

DocIds == 1..NDocs
DocCategory(i) == IF i % 2 = 1 THEN <<"a">> ELSE <<"b">>
DocStatus(i) == IF i % 12 = 0 THEN "borrowed" ELSE "available"
DocBorrowCount(i) == i % 5
DocRating(i) == i % 3
DocCreatedAt(i) == i

\* _id compared with the text of req.query.bookId: an ObjectId never equals
\* a string
IdEquals(i, bookId, idType) == idType = "string" /\ i = bookId

\* sort({ borrowCount: -1, rating: -1, createdAt: -1 })
SortsBefore(i, j) ==
    \/ DocBorrowCount(i) > DocBorrowCount(j)
    \/ /\ DocBorrowCount(i) = DocBorrowCount(j)
       /\ \/ DocRating(i) > DocRating(j)
          \/ /\ DocRating(i) = DocRating(j)
             /\ DocCreatedAt(i) > DocCreatedAt(j)

RECURSIVE SortDocs(_)
SortDocs(S) ==
    IF S = {} THEN <<>>
    ELSE LET first == CHOOSE i \in S : \A j \in S \ {i} : SortsBefore(i, j)
         IN  <<first>> \o SortDocs(S \ {first})

\* cursor.limit(n): 0 sets no limit, a negative n limits to -n
CursorLimit(docs, n) ==
    IF n = 0 THEN docs
    ELSE IF n < 0 THEN Slice(docs, 0 - n)
    ELSE Slice(docs, n)

\* the category filter of the primary query
HasCategory(category) == category # <<>> /\ Trim(category) # <<>>

\* find(query).sort(...).limit(Math.min(20, parseInt(limit)))
RelatedQuery(bookId, category, limit, idType) ==
    CursorLimit(SortDocs({i \in DocIds :
                            /\ ~IdEquals(i, bookId, idType)
                            /\ DocStatus(i) = "available"
                            /\ HasCategory(category)
                                  => DocCategory(i) = Trim(category)}),
                Min(RelatedMax, limit))

\* the fill-up query: $nin existingIds, other categories, limit(remainingLimit)
AdditionalQuery(relatedBooks, bookId, category, limit, idType) ==
    LET remainingLimit == limit - Len(relatedBooks)
    IN  CursorLimit(SortDocs({i \in DocIds :
                                /\ i \notin Range(relatedBooks)
                                /\ ~IdEquals(i, bookId, idType)
                                /\ DocStatus(i) = "available"
                                /\ category # <<>> => DocCategory(i) # category}),
                    remainingLimit)

NoRelated(idType) ==
    [pc |-> "idle", method |-> "GET", bookId |-> 0, category |-> <<>>,
     limit |-> 0, idType |-> idType, relatedBooks |-> <<>>, filled |-> FALSE,
     status |-> 0, success |-> FALSE, data |-> <<>>]

RelatedIdle == related = NoRelated("ObjectId")

RelatedRespond(req, code, success, data) ==
    [req EXCEPT !.pc = "done", !.status = code, !.success = success,
                !.data = data]

\* res.status(200).json({ success: true, data: books, ... })
RelatedBooks(req, relatedBooks) ==
    RelatedRespond([req EXCEPT !.relatedBooks = relatedBooks], 200, TRUE,
                   relatedBooks)

\* the handler up to await connectToDatabase(); limit is a number's text
RelatedStart(method, bookId, category, limit) ==
    /\ related.pc = "idle"
    /\ LET req == [related EXCEPT !.method = method, !.bookId = bookId,
                                  !.category = IF category = Absent THEN <<>>
                                               ELSE category.s,
                                  !.limit = ParseInt(limit, RelatedDefaultLimit).v]
       IN  related' =
             IF method = "OPTIONS" THEN RelatedRespond(req, 200, TRUE, <<>>)
             ELSE IF method # "GET" THEN RelatedRespond(req, 405, FALSE, <<>>)
             ELSE [req EXCEPT !.pc = "connect"]
    /\ UNCHANGED <<apiVars, pageVars, mongoVars, memVars>>

\* connectToDatabase settles; the primary query is sent
RelatedConnected(ok) ==
    /\ related.pc = "connect"
    /\ related' =
         IF ~ok THEN RelatedRespond(related, 500, FALSE, <<>>)
         ELSE IF related.bookId = 0 THEN RelatedRespond(related, 400, FALSE, <<>>)
         ELSE [related EXCEPT !.pc = "primary"]
    /\ UNCHANGED <<apiVars, pageVars, mongoVars, memVars>>

\* the primary query settles
RelatedPrimary(ok) ==
    /\ related.pc = "primary"
    /\ LET relatedBooks == RelatedQuery(related.bookId, related.category,
                                        related.limit, related.idType)
       IN  related' =
             IF ~ok THEN RelatedRespond(related, 500, FALSE, <<>>)
             ELSE IF Len(relatedBooks) < related.limit
                  THEN [related EXCEPT !.pc = "fill",
                                       !.relatedBooks = relatedBooks]
                  ELSE RelatedBooks(related, relatedBooks)
    /\ UNCHANGED <<apiVars, pageVars, mongoVars, memVars>>

\* the fill-up query settles
RelatedFill(ok) ==
    /\ related.pc = "fill"
    /\ LET additionalBooks == AdditionalQuery(related.relatedBooks,
                                              related.bookId, related.category,
                                              related.limit, related.idType)
       IN  related' =
             IF ~ok THEN RelatedRespond(related, 500, FALSE, <<>>)
             ELSE RelatedBooks([related EXCEPT !.filled = TRUE],
                               related.relatedBooks \o additionalBooks)
    /\ UNCHANGED <<apiVars, pageVars, mongoVars, memVars>>

\* the MongoDB-side components before anything has used them
LibIdle == PageIdle /\ MongoIdle /\ MemIdle /\ RelatedIdle

-----------------------------------------------------------------------------
EmptyCache == [k \in {} |-> Null]

InitRec ==
    /\ LibIdle
    /\ reqs = [r \in Slots |-> NoReq]
    /\ cache = EmptyCache
    /\ redis \in {"absent", "up", "failing"}
    /\ db \in {"nopool", "up", "down"}
    /\ views = [i \in Viewed |-> 0]
    /\ pending = [i \in Viewed |-> 0]
    /\ now = 0
    /\ started = 0

NextRec ==
    \/ /\ started = 0
       /\ \E m \in {"GET", "POST"}, q \in RecQueries, l \in RecLimits :
            RecommendStart(1, m, q, l)
    \/ RecommendGet(1)
    \/ RecommendSearch(1)
    \/ \E ai \in AiOutcomes(reqs[1].candidateBooks) : RecommendAi(1, ai)

SpecRec == InitRec /\ [][NextRec]_vars

-----------------------------------------------------------------------------
(* The four handlers over one Redis and one database, requests one after    *)
(* another (Spec) or two at a time (SpecConc)                               *)

QueryBO == <<"b", "o">>         \* the titles of rows 1 and 5 contain it

\* the answers of the completion service the handlers are run against
AiFew(candidateBooks) ==
    {AiThrow,
     AiJson(JObj(<<>>, RecsArray(<<Item(IdVal(NBooks + 1))>>)))}
    \cup {AiJson(JObj(<<"ai-summary">>, RecsArray(<<Item(candidateBooks[k].id)>>))) :
            k \in {j \in {1} : j <= Len(candidateBooks)}}

Init ==
    /\ LibIdle
    /\ reqs = [r \in Slots |-> NoReq]
    /\ cache = EmptyCache
    /\ redis \in {"absent", "up", "failing"}
    /\ db \in {"nopool", "up", "down"}
    /\ views = [i \in Viewed |-> 0]
    /\ pending = [i \in Viewed |-> 0]
    /\ now = 0
    /\ started = 0

Idle(r) == reqs[r].pc \in {"idle", "done"}

\* the parameters the requests are drawn from
SomeQueries == {Absent, Str(QueryBO)}
SomeLimits == {Absent, NumParam(1)}
SomeLookups == {<<NumParam(1), Absent>>, <<Absent, Str(QueryBO)>>}
SomeQuestions == {Absent, Str(<<"?">>)}
SomeAnswers == {AiThrow, AiNoContent, AiText}

Step(r) ==
    \/ RecommendGet(r)
    \/ RecommendSearch(r)
    \/ \E ai \in AiFew(reqs[r].candidateBooks) : RecommendAi(r, ai)
    \/ SearchGet(r)
    \/ SearchRows(r)
    \/ SearchCount(r)
    \/ StatsGet(r)
    \/ StatsQuery(r)
    \/ QueryGet(r)
    \/ QueryLookup(r)
    \/ \E ai \in SomeAnswers : QueryAnswer(r, ai)

\* one request at a time, in slot 1; the clock moves between requests (a
\* request lasts seconds, a tick minutes)
Next ==
    \/ \E q \in SomeQueries : RecommendStart(1, "POST", q, Absent)
    \/ \E q \in SomeQueries, l \in SomeLimits :
            SearchStart(1, "object", q, Absent, l, Absent, Absent)
    \/ StatsStart(1)
    \/ \E lk \in SomeLookups, question \in SomeQuestions :
            QueryStart(1, "POST", lk[1], lk[2], question)
    \/ Step(1)
    \/ \E i \in Viewed : UpdateViewCount(i)
    \/ DbFlip
    \/ Idle(1) /\ Tick

Spec == Init /\ [][Next]_vars

\* two requests at a time, for the same search or the same recommendation
StepConc(r) ==
    \/ RecommendGet(r)
    \/ RecommendSearch(r)
    \/ \E ai \in AiFew(reqs[r].candidateBooks) : RecommendAi(r, ai)
    \/ SearchGet(r)
    \/ SearchRows(r)
    \/ SearchCount(r)

NextConc ==
    \/ \E r \in Slots : RecommendStart(r, "POST", Str(QueryBO), Absent)
    \/ \E r \in Slots : SearchStart(r, "object", Str(QueryBO), Absent, Absent, Absent, Absent)
    \/ \E r \in Slots : StepConc(r)
    \/ DbFlip

SpecConc == Init /\ [][NextConc]_vars

-----------------------------------------------------------------------------
(* One search or one recommendation against a catalog that stands still     *)
(* (SpecSearch): the queries, pages, limits and filters a caller can send   *)

QueryX == <<"x">>                       \* six subjects contain it
QueryTwice == QueryTraditional \o QueryTraditional
QueryTwoTerms == QueryTraditional \o <<"erT", "tong">>
LanguageEn == <<"e", "n">>
SubjectXab == <<"x", "a", "b">>

\* queries a few rows match, or none
NarrowQueries ==
    {Absent, Str(<<" ">>), Str(<<" ">> \o QueryBO \o <<" ">>),
     Str(QueryTraditional), Str(QueryTwice), Str(QueryTwoTerms), Str(QueryX)}

SomePages == {Absent, NumParam(0), NumParam(2), Str(<<"x">>)}
PageSizes == {Absent, NumParam(0), NumParam(3), NumParam(60), Str(<<"x">>)}
SomeLanguages == {Absent, Str(LanguageEn)}
SomeSubjects == {Absent, Str(<<>>), Str(SubjectXab)}

\* <<params, q, page, limit, language, subject>>; the query every row matches
\* is asked for short pages
SearchInputs ==
    {<<"object", q, pg, l, lang, subj>> :
        q \in NarrowQueries, pg \in SomePages, l \in PageSizes,
        lang \in SomeLanguages, subj \in SomeSubjects}
    \cup {<<"object", Str(QueryAB), pg, l, lang, subj>> :
        pg \in {Absent, NumParam(2)}, l \in {NumParam(0), NumParam(3)},
        lang \in SomeLanguages, subj \in SomeSubjects}
    \cup {<<"undefined", Absent, Absent, Absent, Absent, Absent>>}

RecommendInputs ==
    {<<m, q, l>> : m \in {"GET", "POST"},
                   q \in NarrowQueries \cup {Str(QueryAB)},
                   l \in {Absent, NumParam(1)}}

InitSearch ==
    /\ LibIdle
    /\ reqs = [r \in Slots |-> NoReq]
    /\ cache = EmptyCache
    /\ redis \in {"absent", "up"}
    /\ db = "up"
    /\ views \in [Viewed -> {0, 1}]
    /\ pending = [i \in Viewed |-> 0]
    /\ now = 0
    /\ started = 0

NextSearch ==
    \/ /\ started = 0
       /\ \E in \in SearchInputs :
            SearchStart(1, in[1], in[2], in[3], in[4], in[5], in[6])
    \/ /\ started = 0
       /\ \E in \in RecommendInputs : RecommendStart(1, in[1], in[2], in[3])
    \/ SearchGet(1)
    \/ SearchRows(1)
    \/ SearchCount(1)
    \/ RecommendGet(1)
    \/ RecommendSearch(1)
    \/ \E ai \in AiFew(reqs[1].candidateBooks) : RecommendAi(1, ai)

SpecSearch == InitSearch /\ [][NextSearch]_vars

-----------------------------------------------------------------------------
(* Two requests whose parameters hold the separator of the cache key        *)
(* (SpecKeys)                                                               *)

\* filters and queries with and without a ':' in them
ColonLanguages == {Str(LanguageEn), Str(LanguageEn \o <<":", "s">>)}
ColonSubjects == {Str(<<"s">>), Str(<<"s", ":", "s">>)}
ColonQueries == {Str(QueryBO), Str(QueryBO \o <<":", "1">>)}

InitKeys ==
    /\ LibIdle
    /\ reqs = [r \in Slots |-> NoReq]
    /\ cache = EmptyCache
    /\ redis = "up"
    /\ db = "up"
    /\ views = [i \in Viewed |-> 0]
    /\ pending = [i \in Viewed |-> 0]
    /\ now = 0
    /\ started = 0

NextKeys ==
    \/ \E r \in Slots, lang \in ColonLanguages, subj \in ColonSubjects :
            SearchStart(r, "object", Str(QueryBO), Absent, Absent, lang, subj)
    \/ \E r \in Slots, q \in ColonQueries, l \in SomeLimits :
            RecommendStart(r, "POST", q, l)
    \/ \E r \in Slots : SearchGet(r)
    \/ \E r \in Slots : SearchRows(r)
    \/ \E r \in Slots : SearchCount(r)
    \/ \E r \in Slots : RecommendGet(r)
    \/ \E r \in Slots : RecommendSearch(r)
    \/ \E r \in Slots : \E ai \in AiFew(reqs[r].candidateBooks) : RecommendAi(r, ai)

SpecKeys == InitKeys /\ [][NextKeys]_vars

-----------------------------------------------------------------------------
(* Specifications of the MongoDB-side components, each with the handlers   *)
(* of src/index.js at rest                                                 *)

ApiIdle ==
    /\ reqs = [r \in Slots |-> NoReq]
    /\ cache = EmptyCache
    /\ redis = "absent"
    /\ db = "nopool"
    /\ views = [i \in Viewed |-> 0]
    /\ pending = [i \in Viewed |-> 0]
    /\ now = 0
    /\ started = 0

\* pagination: one page request, every implementation computes its block
InitPage ==
    /\ ApiIdle /\ MongoIdle /\ MemIdle /\ RelatedIdle
    /\ \E page \in 1..MaxPage, pageSize \in 1..MaxPageSize, total \in 0..MaxTotal :
         paging = PageRequest(page, pageSize, total)

NextPage ==
    \/ SearchPaginates
    \/ MongoSearchPaginates
    \/ UtilPaginates

SpecPage == InitPage /\ [][NextPage]_vars

\* connectToDatabase: concurrent calls and one closeConnection
InitMongo == ApiIdle /\ PageIdle /\ MongoIdle /\ MemIdle /\ RelatedIdle

NextMongo ==
    \/ \E c \in Calls : ConnectCall(c)
    \/ \E c \in Calls, ok \in BOOLEAN : Connected(c, ok)
    \/ \E c \in Calls, ok \in BOOLEAN : Pinged(c, ok)
    \/ CloseCall
    \/ \E ok \in BOOLEAN : Closed(ok)

SpecMongo == InitMongo /\ [][NextMongo]_vars

\* cacheManager: any sequence of set, get, delete and clear as time passes
InitMem == ApiIdle /\ PageIdle /\ MongoIdle /\ MemIdle /\ RelatedIdle

NextMem ==
    \/ \E key \in MemKeys, value \in MemValues, ttl \in MemTtls :
         MemSet(key, value, ttl)
    \/ \E key \in MemKeys : MemGet(key)
    \/ \E key \in MemKeys : MemDelete(key)
    \/ MemClear
    \/ \E ms \in {1, DefaultTtl} : MemTick(ms)

SpecMem == InitMem /\ [][NextMem]_vars

\* related books: one request against a collection of ObjectId or string ids
RelatedMethods == {"GET", "POST", "OPTIONS"}
RelatedBookIds == {0, 23}
RelatedCategories == {Absent, Str(<<"a">>), Str(<<"a", " ">>), Str(<<" ">>)}
RelatedLimits == {Absent, NumParam(0), NumParam(3), NumParam(21), NumParam(30)}

InitRelated ==
    /\ ApiIdle /\ PageIdle /\ MongoIdle /\ MemIdle
    /\ \E idType \in {"ObjectId", "string"} : related = NoRelated(idType)

NextRelated ==
    \/ \E method \in RelatedMethods, bookId \in RelatedBookIds,
          category \in RelatedCategories, limit \in RelatedLimits :
         RelatedStart(method, bookId, category, limit)
    \/ \E ok \in BOOLEAN : RelatedConnected(ok)
    \/ \E ok \in BOOLEAN : RelatedPrimary(ok)
    \/ \E ok \in BOOLEAN : RelatedFill(ok)

SpecRelated == InitRelated /\ [][NextRelated]_vars

-----------------------------------------------------------------------------
(* Properties of the recommendation step (SpecRec) *)

\* x.id, undefined where x has no such member
IdOf(x) == IF "id" \in DOMAIN x THEN x.id ELSE [t |-> "undefined"]

Ids(s) == [k \in 1..Len(s) |-> IdOf(s[k])]

\* a recommend request answered after the completion service was called
Recommended(r) ==
    /\ reqs[r].op = "recommend" /\ reqs[r].pc = "done"
    /\ reqs[r].status = 200 /\ ~reqs[r].hit
    /\ reqs[r].ai # Null

\* the completion service's answer is an object whose recommendations are an
\* array without null elements
WellFormed(ai) ==
    /\ ai.kind = "json" /\ ai.val.t = "obj" /\ ai.val.recs.t = "array"
    /\ \A k \in 1..Len(ai.val.recs.items) : ai.val.recs.items[k].t # "null"

\* C1: whatever the completion service answers, every id among the returned
\* recommendations is the id of a candidate of that call.
C1_IdsAreCandidates ==
    \A r \in Slots :
        Recommended(r) =>
            Range(Ids(reqs[r].body.recommendations))
                \subseteq Range(Ids(reqs[r].candidateBooks))

\* C1 witness: the service named an id that is in no row next to a candidate's
\* id, and a recommendation was returned
C1_Witness ==
    \E r \in Slots :
        /\ Recommended(r) /\ WellFormed(reqs[r].ai)
        /\ IdVal(NBooks + 1) \in Range(Ids(reqs[r].ai.val.recs.items))
        /\ reqs[r].body.recommendations # <<>>

\* C2: with candidates, a parseable answer whose recommendations are absent,
\* empty or all removed by the validation gate is answered by the first
\* `limit` candidates in candidate order.
C2_EmptyValidatedFallsBack ==
    \A r \in Slots :
        ( /\ Recommended(r)
          /\ reqs[r].candidateBooks # <<>>
          /\ reqs[r].ai.kind = "json"
          /\ ~ValidationThrows(reqs[r].ai.val, reqs[r].candidateBooks)
          /\ ValidRecommendations(reqs[r].ai.val, reqs[r].candidateBooks) = <<>> )
        => Ids(reqs[r].body.recommendations)
             = Ids(Slice(reqs[r].candidateBooks, reqs[r].limitNum.v))

\* C3: when the call fails, the body has no content or the content is not
\* JSON, the recommendations are the first min(limit, number of candidates)
\* candidates, in order, one per candidate with that candidate's id.
C3_FailureFallsBack ==
    \A r \in Slots :
        (Recommended(r) /\ reqs[r].ai.kind \in {"throw", "nocontent", "text"})
        => /\ Len(reqs[r].body.recommendations)
                = Min(reqs[r].limitNum.v, Len(reqs[r].candidateBooks))
           /\ \A k \in 1..Len(reqs[r].body.recommendations) :
                reqs[r].body.recommendations[k].id = reqs[r].candidateBooks[k].id

\* C3 witness: unparseable content with more candidates than the limit
C3_Witness ==
    \E r \in Slots :
        /\ Recommended(r) /\ reqs[r].ai.kind = "text"
        /\ Len(reqs[r].candidateBooks) > reqs[r].limitNum.v
        /\ Len(reqs[r].body.recommendations) = reqs[r].limitNum.v

\* a recommend request answered on a cache miss after candidate retrieval
\* returned an empty list
EmptyRetrieval(r) ==
    /\ reqs[r].op = "recommend" /\ reqs[r].pc = "done"
    /\ reqs[r].status = 200 /\ ~reqs[r].hit
    /\ reqs[r].candidateBooks = <<>>

\* C4: an empty candidate list is answered by the fixed "nothing found"
\* summary and no recommendations, without a call to the completion service.
C4_EmptyCandidatesNoCall ==
    \A r \in Slots :
        EmptyRetrieval(r) => reqs[r].body = NoResults /\ reqs[r].aiCalls = 0

\* C4 witness: the catalog answered and no row matched
C4_Witness ==
    \E r \in Slots :
        EmptyRetrieval(r) /\ ~reqs[r].dbFailed /\ reqs[r].searchQuery = QueryNone

\* C5: for a well-formed answer the recommendations are the service's, those
\* with a candidate's id only, in the service's order, cut to `limit`.
C5_FilteredInOrderTruncated ==
    \A r \in Slots :
        (Recommended(r) /\ WellFormed(reqs[r].ai))
        => reqs[r].body.recommendations
             = Slice(SelectSeq(reqs[r].ai.val.recs.items,
                        LAMBDA it : /\ it.t = "obj"
                                    /\ it.id \in Range(Ids(reqs[r].candidateBooks))),
                     reqs[r].limitNum.v)

\* C5 witness: one candidate's id and one unknown id with limit 5 give the
\* one valid recommendation
C5_Witness ==
    \E r \in Slots :
        /\ Recommended(r) /\ WellFormed(reqs[r].ai)
        /\ reqs[r].limitNum = Num(5)
        /\ reqs[r].ai.val.recs.items
             = <<Item(reqs[r].candidateBooks[1].id), Item(IdVal(NBooks + 1))>>
        /\ reqs[r].body.recommendations = <<Item(reqs[r].candidateBooks[1].id)>>

\* C6: every returned recommendation names one of the candidates written
\* into the prompt, the first 20 at most.
C6_IdsWereInPrompt ==
    \A r \in Slots :
        Recommended(r) =>
            Range(Ids(reqs[r].body.recommendations))
                \subseteq Range(Ids(BookList(reqs[r].candidateBooks)))

-----------------------------------------------------------------------------
(* Properties of the cache-aside handlers (Spec, SpecConc) *)

Done(r) == reqs[r].pc = "done"

\* the request passed the handler's checks of its input and computed its key
Validated(r) == reqs[r].key # <<>>

Last(s) == s[Len(s)]

\* C7: a request whose catalog query failed, or that found no connection
\* pool, writes no cache entry.
C7_NoWriteOnFailure ==
    \A r \in Slots : reqs[r].dbFailed => reqs[r].wrote = <<>>

\* a request reads, before its expiry, a key that was written: what it must
\* then have done
ReadsLive(r) ==
    /\ reqs[r].pc = "get" /\ reqs'[r].pc # "get"
    /\ Live(reqs[r].key)

ServedFromCache(r) ==
    LET data == cache[reqs[r].key].data
        req == reqs'[r]
    IN  /\ req.hit
        /\ req.dbCalls = 0
        /\ req.op \in {"search", "recommend"} =>
              /\ req.pc = "done" /\ req.status = 200
              /\ req.body = data
              /\ req.aiCalls = 0
        /\ req.op = "stats" =>
              /\ req.pc = "done" /\ req.status = 200
              /\ req.body = StatsResponse(data)
        /\ req.op = "query" => req.book = data

\* a request served from the cache never queries the catalog for the value
\* and, for recommend, never calls the completion service; an item query
\* answers with the cached row
HitsComputeNothing ==
    \A r \in Slots :
        reqs[r].hit =>
            /\ reqs[r].dbCalls = 0
            /\ reqs[r].op = "recommend" => reqs[r].aiCalls = 0
            /\ (reqs[r].op = "query" /\ Done(r)) =>
                  /\ reqs[r].status = 200
                  /\ reqs[r].body.book.id = reqs[r].book.id
                  /\ reqs[r].body.book.viewCount = reqs[r].book.view_count

\* a request writes in this step: the key then holds the value written, until
\* its TTL has elapsed
Stored(r) ==
    Len(reqs'[r].wrote) > Len(reqs[r].wrote) =>
        LET w == Last(reqs'[r].wrote)
        IN  cache'[w.key] = [data |-> w.data, exp |-> now + w.ttl, ttl |-> w.ttl]

\* C8: a request whose key was written and has not expired returns the
\* written value and issues no catalog query and no completion call for it.
C8_CacheRoundTrip ==
    /\ [][\A r \in Slots : Stored(r)]_vars
    /\ [][\A r \in Slots : ReadsLive(r) => ServedFromCache(r)]_vars
    /\ []HitsComputeNothing

\* C8 witness: a search answered from the cache after time has passed, at a
\* moment the database is down
C8_Witness ==
    \E r \in Slots :
        /\ Done(r) /\ reqs[r].hit /\ reqs[r].op = "search"
        /\ reqs[r].status = 200 /\ reqs[r].body.data.books # <<>>
        /\ now > 0 /\ db = "down"

\* what a request answers when it computes: the answer as a function of what
\* the catalog and the completion service returned to it
MissAnswer(req) ==
    /\ req.op = "recommend" =>
          /\ req.status = 200
          /\ req.body =
               IF req.candidateBooks = <<>> THEN NoResults
               ELSE RecommendResult(req.searchQuery, req.candidateBooks,
                        req.limitNum.v,
                        GetAIRecommendations(req.searchQuery, req.candidateBooks,
                                             req.limitNum.v, req.ai))
    /\ req.op = "search" =>
          IF req.dbFailed
          THEN req.status = 500 /\ req.body = SearchError
          ELSE /\ req.status = 200
               /\ req.body = JsonRoundTrip(SearchResult(req,
                                 SearchCountQuery(req.searchQuery, req.language,
                                                  req.subject)))
    /\ req.op = "stats" =>
          /\ req.status = 200 /\ req.body.success
          /\ IF req.dbFailed
             THEN req.body.data \in {StatsError("no-connection"),
                                     StatsError("query-failed")}
             ELSE req.body.data \in
                    {[x EXCEPT !.lastUpdated = req.body.data.lastUpdated] :
                        x \in StatsRows}
    /\ req.op = "query" =>
          IF req.dbFailed THEN req.status = 500
          ELSE IF req.book = Null THEN req.status = 404
          ELSE /\ req.status = 200
               /\ req.body =
                    [QueryResult(req.book,
                                 IF req.ai # Null /\ req.ai.kind = "text"
                                 THEN <<"ai-answer">>
                                 ELSE DefaultAnswer(req.book))
                        EXCEPT !.book.lastViewed = req.body.book.lastViewed]

\* C9: without a Redis client, or with every command rejected, every request
\* computes its answer as on a miss and no error of the cache reaches it.
C9_CacheBypass ==
    \A r \in Slots :
        (Done(r) /\ Validated(r)) =>
            /\ redis # "up" => ~reqs[r].hit
            /\ ~reqs[r].hit => MissAnswer(reqs[r])

\* C9 witness: Redis rejects every command and a search returned rows
C9_Witness ==
    \E r \in Slots :
        /\ redis = "failing" /\ Done(r) /\ reqs[r].op = "search"
        /\ reqs[r].status = 200 /\ reqs[r].body.data.books # <<>>

\* a request writes in this step: the key then holds what it wrote, and it
\* answers with what it wrote
WriteWins(r) ==
    Len(reqs'[r].wrote) > Len(reqs[r].wrote) =>
        LET w == Last(reqs'[r].wrote)
        IN  /\ cache'[w.key].data = w.data
            /\ reqs'[r].status = 200 /\ reqs'[r].body = w.data

\* a request fails only when its own catalog query failed, and answers with
\* what it computed itself
OwnAnswer ==
    \A r \in Slots :
        (Done(r) /\ Validated(r)) =>
            /\ reqs[r].status = 500 => reqs[r].dbFailed
            /\ ~reqs[r].hit => MissAnswer(reqs[r])

\* C10: two requests for the same key in flight together may both compute
\* and both write; the later write replaces the earlier, each request answers
\* with its own result, and neither fails because of the other.
C10_LastWriteWins ==
    /\ [][\A r \in Slots : WriteWins(r)]_vars
    /\ []OwnAnswer

\* C10 witness: both requests missed, computed different results for the same
\* key and wrote them; the key holds one of the two
C10_Witness ==
    /\ Done(1) /\ Done(2)
    /\ reqs[1].key = reqs[2].key
    /\ ~reqs[1].hit /\ ~reqs[2].hit
    /\ reqs[1].wrote # <<>> /\ reqs[2].wrote # <<>>
    /\ reqs[1].body # reqs[2].body
    /\ Live(reqs[1].key)
    /\ cache[reqs[1].key].data = reqs[2].body

-----------------------------------------------------------------------------
(* Properties of retrieval (SpecSearch) *)

\* the request ran its row query (search) or its candidate query (recommend)
\* and holds the list the catalog returned
Retrieved(r) ==
    /\ ~reqs[r].hit /\ ~reqs[r].dbFailed
    /\ \/ reqs[r].op = "search" /\ reqs[r].pc \in {"count", "done"}
          /\ reqs[r].dbCalls >= 1
       \/ reqs[r].op = "recommend" /\ reqs[r].pc \in {"ai", "done"}
          /\ reqs[r].dbCalls >= 1

RetrievedList(r) ==
    IF reqs[r].op = "search" THEN reqs[r].rows ELSE reqs[r].candidateBooks

\* C11: in handleSearch the effective page is at least 1, the effective page
\* size lies in 1..50 and the offset (page - 1) * pageSize is not negative,
\* whatever page and limit the caller sent.
C11_PageAndLimitClamped ==
    \A r \in Slots :
        (reqs[r].op = "search" /\ Validated(r)) =>
            /\ ~reqs[r].pageNum.nan /\ reqs[r].pageNum.v >= 1
            /\ ~reqs[r].limitNum.nan /\ reqs[r].limitNum.v \in 1..50
            /\ (reqs[r].pageNum.v - 1) * reqs[r].limitNum.v >= 0

\* s contains t, letter case apart
Contains(s, t) ==
    \E k \in 0..(Len(s) - Len(t)) :
        \A j \in 1..Len(t) : Lower(s[k + j]) = Lower(t[j])

ContainsEither(s, q) == Contains(s, q) \/ Contains(s, Simplify(q))

\* the best tier a record qualifies for: title, author, subject, other
BestTier(i, q) ==
    IF ContainsEither(Title(i), q) THEN 1
    ELSE IF ContainsEither(Author(i), q) THEN 2
    ELSE IF ContainsEither(Subject(i), q) THEN 3
    ELSE 4

RankKey(row, q) == <<BestTier(row.id.v, q), 0 - row.popularity, 0 - row.view_count>>

Ranked(list, q) ==
    \A k \in 1..(Len(list) - 1) : KeyLE(RankKey(list[k], q), RankKey(list[k + 1], q))

\* the candidate list of searchCandidateBooks is in rank order
CandidatesRanked ==
    \A r \in Slots :
        (Retrieved(r) /\ reqs[r].op = "recommend") =>
            Ranked(reqs[r].candidateBooks, reqs[r].searchQuery)

\* C12: every list retrieval returns, the candidates of searchCandidateBooks
\* and the rows of handleSearch, is sorted by best tier, then descending
\* popularity, then descending view counter.
C12_SortedByTierPopularityViews ==
    \A r \in Slots :
        Retrieved(r) => Ranked(RetrievedList(r), reqs[r].searchQuery)

\* the lists the query of the request can return as the catalog stands
PossibleLists(r) ==
    IF reqs[r].op = "search"
    THEN SearchRowsQuery(reqs[r].searchQuery, reqs[r].language, reqs[r].subject,
                         reqs[r].limitNum.v,
                         (reqs[r].pageNum.v - 1) * reqs[r].limitNum.v, views)
    ELSE CandidateRows(reqs[r].searchQuery, reqs[r].limitNum.v * 3, views)

NoDuplicateIds(list) ==
    \A j, k \in 1..Len(list) : list[j].id = list[k].id => j = k

\* no list holds an identifier twice
RetrievalWithoutDuplicates ==
    \A r \in Slots : Retrieved(r) => NoDuplicateIds(RetrievedList(r))

\* C13: with the same inputs and the catalog unchanged retrieval returns the
\* same records in the same order, ties included, and no identifier twice.
C13_RetrievalDeterministic ==
    \A r \in Slots :
        Retrieved(r) =>
            /\ PossibleLists(r) = {RetrievedList(r)}
            /\ NoDuplicateIds(RetrievedList(r))

\* the match the specification words: any of the four fields contains the
\* query or its variant, or the full-text operator accepts the query
StatedMatch(i, q) ==
    \/ ContainsEither(Title(i), q)
    \/ ContainsEither(Author(i), q)
    \/ ContainsEither(Subject(i), q)
    \/ ContainsEither(Publisher(i), q)
    \/ TsMatch(SearchText(i), q)

StatedMatches(r) ==
    {i \in BookIds :
        /\ StatedMatch(i, reqs[r].searchQuery)
        /\ reqs[r].op = "search" =>
              /\ ~Falsy(reqs[r].language) => Language(i) = reqs[r].language.s
              /\ ~Falsy(reqs[r].subject) => Subject(i) = reqs[r].subject.s}

\* the candidates are the stated matches, all of them when the LIMIT allows
CandidatesAreStatedMatches ==
    \A r \in Slots :
        (Retrieved(r) /\ reqs[r].op = "recommend") =>
            /\ Range(Ids(reqs[r].candidateBooks)) \subseteq {IdVal(i) : i \in StatedMatches(r)}
            /\ Len(reqs[r].candidateBooks) =
                 Min(reqs[r].limitNum.v * 3, Cardinality(StatedMatches(r)))

\* C14: handleSearch and searchCandidateBooks both match a record when any of
\* title, author, subject, publisher contains the query or its variant, or
\* the full-text operator accepts the query.
C14_MatchAnyFieldEitherForm ==
    \A r \in Slots :
        /\ (Retrieved(r) /\ reqs[r].op = "recommend") =>
              /\ Range(Ids(reqs[r].candidateBooks)) \subseteq {IdVal(i) : i \in StatedMatches(r)}
              /\ Len(reqs[r].candidateBooks) =
                   Min(reqs[r].limitNum.v * 3, Cardinality(StatedMatches(r)))
        /\ (Done(r) /\ reqs[r].op = "search" /\ reqs[r].status = 200) =>
              /\ Range(Ids(reqs[r].rows)) \subseteq {IdVal(i) : i \in StatedMatches(r)}
              /\ reqs[r].body.data.pagination.total = Cardinality(StatedMatches(r))

\* the terms of the mapping: <<traditional, simplified>>
MappedTerms ==
    {<<<<"xiao", "shuoT">>, <<"xiao", "shuoS">>>>,
     <<<<"erT", "tong">>, <<"erS", "tong">>>>,
     <<<<"shuT", "xueT">>, <<"shuS", "xueS">>>>,
     <<<<"liT", "shi">>, <<"liS", "shi">>>>,
     <<<<"bianT", "cheng">>, <<"bianS", "cheng">>>>,
     <<<<"dianT", "naoT">>, <<"dianS", "naoS">>>>,
     <<<<"yuT", "yan">>, <<"yuS", "yan">>>>}

\* the mapped term that stands at position k of q, if any
TermsAt(q, k) ==
    {t \in MappedTerms : k >= 1 /\ k + 1 <= Len(q) /\ SubSeq(q, k, k + 1) = t[1]}

HasMappedTerm(q) == \E k \in 1..Len(q) : TermsAt(q, k) # {}

\* v is q with every occurrence of every mapped term replaced, and nothing
\* else changed
EveryOccurrenceReplaced(q, v) ==
    /\ Len(v) = Len(q)
    /\ \A k \in 1..Len(q) :
          v[k] = IF TermsAt(q, k) # {}
                 THEN (CHOOSE t \in TermsAt(q, k) : TRUE)[2][1]
                 ELSE IF TermsAt(q, k - 1) # {}
                 THEN (CHOOSE t \in TermsAt(q, k - 1) : TRUE)[2][2]
                 ELSE q[k]

\* the records whose subject holds the variant and that pass the filters of
\* the request
SubjectHoldsVariant(r) ==
    {i \in BookIds :
        /\ Contains(Subject(i), Simplify(reqs[r].searchQuery))
        /\ reqs[r].op = "search" =>
              /\ ~Falsy(reqs[r].language) => Language(i) = reqs[r].language.s
              /\ ~Falsy(reqs[r].subject) => Subject(i) = reqs[r].subject.s}

\* the list holds everything the query matched: nothing was cut by LIMIT or
\* skipped by OFFSET
Uncut(r) ==
    IF reqs[r].op = "search"
    THEN /\ Done(r) /\ reqs[r].status = 200 /\ reqs[r].pageNum.v = 1
         /\ reqs[r].body.data.pagination.total <= reqs[r].limitNum.v
    ELSE Len(reqs[r].candidateBooks) < reqs[r].limitNum.v * 3

\* C15: normalization replaces every occurrence of every mapped traditional
\* term and leaves a query without one unchanged, with the same table in
\* handleSearch and searchCandidateBooks; a query in a traditional term
\* retrieves the records whose subject holds the simplified form.
C15_NormalizationAndRetrieval ==
    /\ \A t \in MappedTerms :
          /\ Simplify(t[1]) = t[2] /\ SimplifiedTerms(t[1]) = t[2]
          /\ Simplify(t[2]) = t[2] /\ SimplifiedTerms(t[2]) = t[2]
    /\ \A r \in Slots :
        (Validated(r) /\ reqs[r].op \in {"search", "recommend"}) =>
            LET q == reqs[r].searchQuery
            IN  /\ EveryOccurrenceReplaced(q, Simplify(q))
                /\ SimplifiedTerms(q) = Simplify(q)
                /\ ~HasMappedTerm(q) => Simplify(q) = q
                /\ (Retrieved(r) /\ Uncut(r)) =>
                      {IdVal(i) : i \in SubjectHoldsVariant(r)}
                          \subseteq Range(Ids(RetrievedList(r)))

\* C15 witness: a request asked in the traditional term returned row 4, whose
\* subject holds the simplified term only
C15_Witness ==
    /\ Simplify(QueryTwice) # QueryTwice
    /\ \E r \in Slots :
          /\ Retrieved(r) /\ Uncut(r)
          /\ reqs[r].searchQuery = QueryTraditional
          /\ IdVal(4) \in Range(Ids(RetrievedList(r)))
          /\ ~Contains(Subject(4), QueryTraditional)

\* the rows the row statement matches
RowMatches(r) ==
    {i \in BookIds : SearchWhere(i, reqs[r].searchQuery, reqs[r].language,
                                 reqs[r].subject)}

\* C16: the count statement of handleSearch matches what the row statement
\* matches: every row passes the filters, total is the number of rows the row
\* statement returns without LIMIT and OFFSET, and the page holds
\* min(pageSize, max(0, total - offset)) rows.
C16_CountAgreesWithRows ==
    \A r \in Slots :
        (Done(r) /\ reqs[r].op = "search" /\ reqs[r].status = 200 /\ ~reqs[r].hit) =>
            LET total == reqs[r].body.data.pagination.total
                offset == (reqs[r].pageNum.v - 1) * reqs[r].limitNum.v
                books == reqs[r].body.data.books
            IN  /\ \A k \in 1..Len(books) :
                      /\ ~Falsy(reqs[r].language) =>
                            books[k].language = reqs[r].language.s
                      /\ ~Falsy(reqs[r].subject) =>
                            books[k].subject = reqs[r].subject.s
                /\ total = Cardinality(RowMatches(r))
                /\ Len(books) = Min(reqs[r].limitNum.v, Max(0, total - offset))

\* C16 witness: both filters given, a second page of three rows, and more rows
\* matching than the pages so far hold
C16_Witness ==
    \E r \in Slots :
        /\ Done(r) /\ reqs[r].op = "search" /\ reqs[r].status = 200
        /\ ~Falsy(reqs[r].language) /\ ~Falsy(reqs[r].subject)
        /\ reqs[r].pageNum.v = 2
        /\ Len(reqs[r].body.data.books) = 3
        /\ reqs[r].body.data.pagination.total = 6

-----------------------------------------------------------------------------
(* Properties of failure handling (Spec, SpecSearch) *)

\* C17: when there is no connection pool or a catalog query fails, search and
\* recommend answer 200 with empty data and surface no error.
C17_CatalogFailureAnswersEmpty ==
    \A r \in Slots :
        (Done(r) /\ reqs[r].op \in {"search", "recommend"} /\ reqs[r].dbFailed) =>
            /\ reqs[r].status = 200
            /\ reqs[r].op = "search" => reqs[r].body.data.books = <<>>
            /\ reqs[r].op = "recommend" => reqs[r].body.recommendations = <<>>

\* recommend alone absorbs the failure
RecommendAbsorbsCatalogFailure ==
    \A r \in Slots :
        (Done(r) /\ reqs[r].op = "recommend" /\ reqs[r].dbFailed) =>
            /\ reqs[r].status = 200 /\ reqs[r].candidateBooks = <<>>
            /\ reqs[r].body.recommendations = <<>>

\* the query of the request is missing, or empty once trimmed
MissingOrEmpty(req) ==
    req.query.t = "absent" \/ (req.query.t = "str" /\ Trim(req.query.s) = <<>>)

\* the request was turned away as invalid input before it did anything
RejectedUntouched(req) ==
    /\ req.status = 400
    /\ req.key = <<>> /\ ~req.hit /\ req.wrote = <<>>
    /\ req.dbCalls = 0 /\ req.aiCalls = 0

\* requests whose parameters arrive in an object are turned away as stated
RejectedWhenParametersArrive ==
    \A r \in Slots :
        (/\ Done(r) /\ MissingOrEmpty(reqs[r])
         /\ \/ reqs[r].op = "search" /\ reqs[r].method = "GET"
            \/ reqs[r].op = "recommend" /\ reqs[r].method = "POST")
        => RejectedUntouched(reqs[r])

\* C18: a search or recommend request whose query is missing or empty after
\* trimming is answered 400 and reads no cache, writes no cache, queries no
\* catalog and calls no completion service.
C18_MissingQueryRejected ==
    \A r \in Slots :
        (/\ Done(r) /\ MissingOrEmpty(reqs[r])
         /\ \/ reqs[r].op = "search"
            \/ reqs[r].op = "recommend" /\ reqs[r].method = "POST")
        => RejectedUntouched(reqs[r])

\* C19: a recommend request and an item-question request call the completion
\* service at most once, on every path; a failed call is not made again.
C19_AtMostOneCompletionCall ==
    \A r \in Slots :
        /\ reqs[r].aiCalls <= 1
        /\ reqs[r].pc \in {"ai", "answer"} => reqs[r].aiCalls = 1
        /\ reqs[r].ai # Null => reqs[r].aiCalls = 1
        /\ reqs[r].hit /\ reqs[r].op = "recommend" => reqs[r].aiCalls = 0

\* C19 witness: a recommendation was answered from the candidates after its
\* one call failed
C19_Witness ==
    \E r \in Slots :
        /\ Done(r) /\ reqs[r].op = "recommend"
        /\ reqs[r].ai = AiThrow /\ reqs[r].aiCalls = 1
        /\ reqs[r].status = 200 /\ reqs[r].body.recommendations # <<>>

\* C20: when the completion service fails (error, timeout, no content) on an
\* item question, handleQuery answers 200 with the fixed description of the
\* item and the item's data.
C20_QuestionFallsBack ==
    \A r \in Slots :
        (Done(r) /\ reqs[r].op = "query" /\ reqs[r].ai \in {AiThrow, AiNoContent}) =>
            /\ reqs[r].status = 200
            /\ reqs[r].body.success
            /\ reqs[r].body.answer = DefaultAnswer(reqs[r].book)
            /\ reqs[r].body.book.id = reqs[r].book.id
            /\ reqs[r].body.book.title = reqs[r].book.title
            /\ reqs[r].body.book.viewCount = reqs[r].book.view_count

\* C20 witness: an item question answered after the call was rejected, and the
\* row came from the catalog
C20_Witness ==
    \E r \in Slots :
        /\ Done(r) /\ reqs[r].op = "query" /\ reqs[r].ai = AiThrow
        /\ HasQuestion(reqs[r].question)
        /\ ~reqs[r].hit /\ reqs[r].status = 200

-----------------------------------------------------------------------------
(* Properties of the item query, of the TTLs and of the responses *)

\* where an item query stands with its view-counter increment
IncrementsSoFar ==
    \A r \in Slots :
        reqs[r].op = "query" =>
            /\ reqs[r].pc \in {"get", "lookup"} => reqs[r].updates = 0
            /\ reqs[r].pc \in {"answer", "done"} =>
                  IF reqs[r].book # Null
                  THEN /\ reqs[r].updates = 1
                       /\ Done(r) => reqs[r].status = 200
                  ELSE reqs[r].updates = 0

\* the step in which a request finds its item sends one UPDATE, for that item
IncrementIsForTheItem(r) ==
    reqs'[r].updates > reqs[r].updates =>
        \E i \in Viewed :
            /\ reqs'[r].book.id = IdVal(i)
            /\ pending' = [pending EXCEPT ![i] = @ + 1]

\* an UPDATE that is executed or rejected leaves every request as it is
IncrementLeavesResponses ==
    (\E i \in Viewed : pending'[i] < pending[i]) => reqs' = reqs

OperationTtl(op) ==
    CASE op = "stats" -> 1800
      [] op = "search" -> 300
      [] op = "recommend" -> 600
      [] op = "query" -> 3600

\* every write but the one recommend makes for an empty candidate list
WritesOfResultsUseOperationTtl ==
    \A r \in Slots :
        \A k \in 1..Len(reqs[r].wrote) :
            reqs[r].wrote[k].data # NoResults =>
                reqs[r].wrote[k].ttl = OperationTtl(reqs[r].op)

\* C22: every cache write carries the TTL of its operation, 1800 s for
\* statistics, 300 s for search, 600 s for recommend, 3600 s for an item;
\* also the write recommend makes when no candidate was found.
C22_WritesUseOperationTtl ==
    \A r \in Slots :
        \A k \in 1..Len(reqs[r].wrote) :
            /\ reqs[r].wrote[k].ttl = OperationTtl(reqs[r].op)
            /\ Live(reqs[r].wrote[k].key) =>
                  cache[reqs[r].wrote[k].key].ttl = OperationTtl(reqs[r].op)

\* a hit of search, recommend or statistics: what the step does
HitIsPure(r) ==
    (ReadsLive(r) /\ reqs[r].op \in {"search", "recommend", "stats"}) =>
        /\ cache' = cache
        /\ reqs'[r].pc = "done" /\ reqs'[r].hit /\ reqs'[r].status = 200
        /\ reqs'[r].body = IF reqs[r].op = "stats"
                           THEN StatsResponse(cache[reqs[r].key].data)
                           ELSE cache[reqs[r].key].data
        /\ reqs'[r].wrote = <<>>
        /\ reqs'[r].dbCalls = 0 /\ reqs'[r].aiCalls = 0
        /\ reqs'[r].candidateBooks = <<>> /\ reqs'[r].ai = Null

\* C23: on a hit search, recommend and statistics return the cached value as
\* it is, query nothing, call nothing, validate nothing again, and leave the
\* entry and its expiry as they were.
C23_HitLeavesCacheUnchanged ==
    [][\A r \in Slots : HitIsPure(r)]_vars

\* C23 witness: a recommendation was served from an entry written earlier,
\* whose expiry is the one of its writing
C23_Witness ==
    \E r \in Slots :
        /\ Done(r) /\ reqs[r].op = "recommend" /\ reqs[r].hit
        /\ Live(reqs[r].key)
        /\ cache[reqs[r].key].exp < now + cache[reqs[r].key].ttl

\* the successful results of search and item query carry the flag
SearchAndQueryResultsCarryFlag ==
    \A r \in Slots :
        (Done(r) /\ reqs[r].op \in {"search", "query"} /\ reqs[r].status = 200) =>
            "success" \in DOMAIN reqs[r].body

\* C24: every result of search, recommend and item query carries a success
\* flag, and every failure carries a reason code and a message.
C24_ResponsesCarryFlagAndReason ==
    \A r \in Slots :
        (Done(r) /\ reqs[r].op \in {"search", "recommend", "query"}) =>
            /\ "success" \in DOMAIN reqs[r].body
            /\ reqs[r].status # 200 =>
                  /\ "error" \in DOMAIN reqs[r].body
                  /\ {"code", "message"} \cap DOMAIN reqs[r].body # {}

\* with a limit that is a number, or none, the effective limit is in 1..20
\* and the recommendations are at most that many
NumericLimitBoundsRecommendations ==
    \A r \in Slots :
        (reqs[r].op = "recommend" /\ Validated(r) /\ reqs[r].limit.t # "str") =>
            /\ ~reqs[r].limitNum.nan /\ reqs[r].limitNum.v \in 1..20
            /\ (Done(r) /\ reqs[r].status = 200) =>
                  Len(reqs[r].body.recommendations) <= reqs[r].limitNum.v

\* C25: on every path of handleRecommend the recommendations returned are at
\* most the effective limit, and the effective limit is in 1..20 whatever
\* limit was sent.
C25_AtMostEffectiveLimit ==
    \A r \in Slots :
        (reqs[r].op = "recommend" /\ Validated(r)) =>
            /\ ~reqs[r].limitNum.nan /\ reqs[r].limitNum.v \in 1..20
            /\ (Done(r) /\ reqs[r].status = 200) =>
                  Len(reqs[r].body.recommendations) <= reqs[r].limitNum.v

-----------------------------------------------------------------------------
(* Properties of the cache key (SpecKeys) *)

\* the normalized parameters the key of a request is made from
KeyParameters(req) ==
    IF req.op = "search"
    THEN <<req.searchQuery, req.pageNum, req.limitNum,
           OrEmpty(req.language), OrEmpty(req.subject)>>
    ELSE <<req.searchQuery, req.limitNum>>

\* recommendations with different parameters have different keys
RecommendKeysInjective ==
    \A r1, r2 \in Slots :
        (/\ Validated(r1) /\ Validated(r2)
         /\ reqs[r1].op = "recommend" /\ reqs[r2].op = "recommend"
         /\ KeyParameters(reqs[r1]) # KeyParameters(reqs[r2]))
        => reqs[r1].key # reqs[r2].key

\* a search served from the cache is served a result made for its own
\* parameters
ServedOwnResult(r) ==
    (Done(r) /\ reqs[r].op = "search" /\ reqs[r].hit) =>
        /\ reqs[r].body.data.query = reqs[r].searchQuery
        /\ reqs[r].body.data.filters =
              DropUndefined([language |-> reqs[r].language,
                             subject |-> reqs[r].subject])

\* some search was served the result of a search with other filters
ServedAnothersResult == \E r \in Slots : ~ServedOwnResult(r)

\* C27: two requests of one operation with different normalized parameters
\* have different keys, also when a parameter holds a ':', and no request is
\* served the cached result of another.
C27_KeyInjective ==
    /\ \A r1, r2 \in Slots :
          (/\ Validated(r1) /\ Validated(r2)
           /\ reqs[r1].op = reqs[r2].op
           /\ KeyParameters(reqs[r1]) # KeyParameters(reqs[r2]))
          => reqs[r1].key # reqs[r2].key
    /\ \A r \in Slots : ServedOwnResult(r)

-----------------------------------------------------------------------------
(* Properties of the pagination blocks (SpecPage) *)

\* the least number of pages of pageSize rows that hold total rows
PagesFor(total, pageSize) ==
    CHOOSE n \in 0..total : /\ n * pageSize >= total
                            /\ n > 0 => (n - 1) * pageSize < total

HasNextIs(p) == p.page * p.pageSize < p.total

PgFlagsArithmetic ==
    paging.pg # Null =>
        /\ paging.pg.hasPrev = (paging.page > 1)
        /\ paging.pg.totalPages = PagesFor(paging.total, paging.pageSize)
        /\ paging.pg.hasNext = HasNextIs(paging)

MongoFlagsArithmetic ==
    paging.mongo # Null =>
        /\ paging.mongo.hasPrev = (paging.page > 1)
        /\ paging.mongo.total = PagesFor(paging.total, paging.pageSize)
        /\ paging.mongo.hasNext = HasNextIs(paging)

UtilFlagsArithmetic ==
    paging.util # Null =>
        /\ paging.util.totalPages = PagesFor(paging.total, paging.pageSize)
        /\ paging.util.hasMore = HasNextIs(paging)

AllPaginated == paging.pg # Null /\ paging.mongo # Null /\ paging.util # Null

\* C26: for every page >= 1, pageSize >= 1 and total >= 0, hasPrev holds
\* exactly when page > 1, totalPages is ceil(total / pageSize), hasNext holds
\* exactly when page * pageSize < total, and the hasNext of the PostgreSQL
\* search, the hasNext of the MongoDB search and the hasMore of
\* dbUtils.paginate agree.
C26_PaginationFlagsAgree ==
    /\ PgFlagsArithmetic
    /\ MongoFlagsArithmetic
    /\ UtilFlagsArithmetic
    /\ AllPaginated =>
         /\ paging.pg.hasNext = paging.mongo.hasNext
         /\ paging.mongo.hasNext = paging.util.hasMore

\* the three blocks of a last page that is full and is not the first
C26_Witness ==
    /\ AllPaginated
    /\ paging.page > 1
    /\ paging.page * paging.pageSize = paging.total
    /\ ~paging.mongo.hasNext

-----------------------------------------------------------------------------
(* Properties of connectToDatabase (SpecMongo) *)

HasReturned(c) == calls[c].pc = "returned"
HasThrown(c) == calls[c].pc = "threw"

\* a returned handle is of a client whose connect succeeded and of a db a
\* ping succeeded on
ReturnsAfterConnectAndPing ==
    \A c \in Calls :
        HasReturned(c) =>
            /\ calls[c].client # 0
            /\ calls[c].db = calls[c].client
            /\ clients[calls[c].client].connect = "ok"
            /\ clients[calls[c].db].pinged

\* a call fails only when the connect or the ping it awaited itself failed
FailsOnOwnFailure == \A c \in Calls : HasThrown(c) => calls[c].own

\* cachedDb non-null implies cachedClient non-null, and cachedDb is then
\* the db of cachedClient
DbImpliesClient == cachedDb # 0 => cachedClient = cachedDb

\* C28: under any interleaving of concurrent connectToDatabase calls a call
\* returns {client, db} only after that client's connect and a ping on that
\* db have both succeeded, one call's failure makes no other call fail, and
\* cachedDb non-null implies cachedClient non-null.
C28_ConcurrentConnectsSafe ==
    /\ ReturnsAfterConnectAndPing
    /\ FailsOnOwnFailure
    /\ DbImpliesClient

\* a call that fails although every connect and ping it awaited succeeded
ThrowsForAnothersFailure == \E c \in Calls : HasThrown(c) /\ ~calls[c].own

\* a call that returns while the client's connect is still awaited
ReturnsUnconnected ==
    \E c \in Calls :
        /\ HasReturned(c)
        /\ calls[c].client # 0
        /\ clients[calls[c].client].connect = "pending"

\* a call that returns null handles
ReturnsNull == \E c \in Calls : HasReturned(c) /\ calls[c].client = 0

-----------------------------------------------------------------------------
(* Properties of cacheManager (SpecMem) *)

\* what the history says get(key) is to return at time t: the value of the
\* most recent set of the key that no delete or clear followed, unless t is
\* past that set's time + ttl
Expected(key, t) ==
    LET set == memTrace.last[key]
    IN  IF set # Null /\ t <= set.at + set.ttl THEN set.value ELSE Null

FoundExpired(key, t) ==
    LET set == memTrace.last[key]
    IN  set # Null /\ t > set.at + set.ttl

GetReturnsLiveValue ==
    memTrace.got # Null =>
        /\ memTrace.got.result = Expected(memTrace.got.key, memTrace.got.at)
        /\ FoundExpired(memTrace.got.key, memTrace.got.at)
              => memTrace.got.key \notin DOMAIN memCache

SetKeepsOtherKeys ==
    memTrace'.op.name = "set" =>
        \A k \in MemKeys \ {memTrace'.op.key} :
            MapGet(memCache', k) = MapGet(memCache, k)

\* C29: after any sequence of set, get, delete and clear, get(key) returns
\* the value of the most recent set(key) if no delete(key) or clear followed
\* it and the time is not past set time + ttl, and null otherwise; a get that
\* finds an expired entry removes it; a set changes no other key's entry.
C29_GetReturnsLiveValueOrNull ==
    [](GetReturnsLiveValue) /\ [][SetKeepsOtherKeys]_vars

\* a get at the very millisecond of the expiry, which still returns the value
C29_Witness ==
    /\ memTrace.got # Null
    /\ memTrace.got.result # Null
    /\ memTrace.last[memTrace.got.key].ttl > 0
    /\ memTrace.got.at = memTrace.last[memTrace.got.key].at
                            + memTrace.last[memTrace.got.key].ttl

\* a get that found an expired entry and removed it
ExpiredRemoved ==
    /\ memTrace.got # Null
    /\ memTrace.got.result = Null
    /\ FoundExpired(memTrace.got.key, memTrace.got.at)
    /\ memTrace.got.key \notin DOMAIN memCache

\* a get of a key whose set was followed by a delete or a clear
GotAfterRemoval ==
    /\ memTrace.got # Null
    /\ memTrace.got.result = Null
    /\ memTrace.last[memTrace.got.key] = Null
    /\ memTrace.got.at > 0

-----------------------------------------------------------------------------
(* Properties of the related-books handler (SpecRelated) *)

RelatedAnswered == related.pc = "done" /\ related.status = 200 /\ related.method = "GET"

RequestedLeftOut == related.bookId \notin Range(related.data)

RelatedDistinct ==
    \A i, j \in 1..Len(related.data) :
        related.data[i] = related.data[j] => i = j

RelatedWithinLimit == Len(related.data) <= Min(RelatedMax, related.limit)

\* no book id is returned twice, across the primary and the fill-up query
RelatedNoDuplicates == RelatedAnswered => RelatedDistinct

\* where _id is the text the request carries, the requested book is left out
StringIdsLeaveRequestedOut ==
    RelatedAnswered /\ related.idType = "string" => RequestedLeftOut

\* a limit from 1 to 20 bounds the number of books returned
SmallLimitsBound ==
    RelatedAnswered /\ related.limit \in 1..RelatedMax => RelatedWithinLimit

\* C30: the related-books handler never returns the requested book, never
\* returns the same book id twice across its primary and its fill-up query,
\* and returns at most min(20, limit) books for every requested limit.
C30_RelatedExcludesAndBounds ==
    RelatedAnswered =>
        /\ RequestedLeftOut
        /\ RelatedDistinct
        /\ RelatedWithinLimit

\* the requested book among the books returned
ReturnsRequested == RelatedAnswered /\ ~RequestedLeftOut

\* more than 20 books returned, the fill-up query having added to 20
ReturnsOverTwenty ==
    RelatedAnswered /\ related.filled /\ Len(related.data) > RelatedMax

\* limit=0 returns every match
ZeroLimitReturnsAll ==
    RelatedAnswered /\ related.limit = 0 /\ Len(related.data) > 0

====
